---------------------------- MODULE Spec2Model ----------------------------
(***************************************************************************)
(* Model of cfe-hydro: the batch interpolation analyser                   *)
(* (src/src/Analisa dados sensoriados.py), the spacing-based routines of  *)
(* src/src/Graficos_Estimativa de Campo Compressiva.py and the streaming  *)
(* buffer of src/src/app/app.py.                                          *)
(*                                                                         *)
(* Numbers.  A float is modelled as an exact rational [n, d] with d > 0   *)
(* in lowest terms; NaN is the record with d = 0.  Rounding of IEEE       *)
(* arithmetic is not modelled.  Python indices are 0-based, sequences     *)
(* here are 1-based: the element at Python position p is element p + 1.   *)
(***************************************************************************)
EXTENDS Integers, Sequences, FiniteSets, TLC

VARIABLES
    \* ---- AnalisadorInterpolacaoCorrigido (batch analyser)
    df,                   \* self.df: column name -> series
    prox,                 \* index of the next interval of `intervalos` to run
    df_simulado,          \* df_simulado of the last loop iteration
    interpolacoes,        \* interpolacoes of the last loop iteration
    resultados_completos, \* rows appended by executar_simulacao
    \* ---- direct calls of the interpolation routines
    ent,                  \* the arguments: ids, series
    mascarada,            \* the series after simular_transmissao_intervalo
    sai,                  \* the last call and what it returned
    \* ---- GerenciadorDados (streaming buffer) and its two threads
    sensor_data,          \* self.sensor_data: sensor -> rows
    messages_received,    \* self.messages_received
    last_message_time,    \* self.last_message_time
    data_lock,            \* holder of self.data_lock
    pc_ing,               \* position of the ingestion thread in adicionar_ponto
    ing,                  \* arguments of the running adicionar_ponto
    pc_disp,              \* position of the display thread
    disp,                 \* the display thread's running read
    snap,                 \* the rows that read works on (its local df)
    historico,            \* ghost: per sensor, every row ever appended, in order
    n_chamadas,           \* ghost: number of adicionar_ponto calls started
    agora,                \* the clock (time.time(), datetime.now()), in seconds
    \* ---- main: the objects of a session
    objetos,              \* the GerenciadorDados objects created so far
    sessao_gd,            \* st.session_state.gerenciador_dados: an index of objetos
    cliente_gd            \* st.session_state.cliente_mqtt.gerenciador_dados: another

vars == << df, prox, df_simulado, interpolacoes, resultados_completos,
           ent, mascarada, sai,
           sensor_data, messages_received, last_message_time, data_lock,
           pc_ing, ing, pc_disp, disp, snap, historico, n_chamadas, agora,
           objetos, sessao_gd, cliente_gd >>

varsAnalisador == << df, prox, df_simulado, interpolacoes, resultados_completos >>
varsInterp     == << ent, mascarada, sai >>
varsStream     == << sensor_data, messages_received, last_message_time, data_lock,
                     pc_ing, ing, pc_disp, disp, snap, historico, n_chamadas,
                     agora >>
varsSessao     == << objetos, sessao_gd, cliente_gd >>

-----------------------------------------------------------------------------
(* Bounds of the model *)

\* longest series drawn as an input
MaxLen == 4
\* largest transmission interval / spacing tried
MaxIntervalo == 3
\* largest max_gap tried for conservative_interpolation
MaxGapTestado == 3

-----------------------------------------------------------------------------
(* Floats as exact rationals *)

NaN == [n |-> 0, d |-> 0]

\* a term of the logarithmic routine (see LogTerm) is NaN when an operand is
IsNaN(x) == IF "fator" \in DOMAIN x THEN x.log_de.d = 0 \/ x.log_ate.d = 0
            ELSE x.d = 0

Abs(i) == IF i < 0 THEN -i ELSE i

RECURSIVE GCD(_, _)
GCD(a, b) == IF b = 0 THEN a ELSE GCD(b, a % b)

\* n/d in lowest terms, d > 0 required
Norm(n, d) ==
    LET g == GCD(Abs(n), d)
    IN  [n |-> IF n < 0 THEN -(Abs(n) \div g) ELSE n \div g, d |-> d \div g]

R(n, d) == Norm(n, d)

LCM(a, b) == (a \div GCD(a, b)) * b

\* sums and comparisons go through the least common denominator and products
\* cancel crosswise first, which keeps the intermediate integers small
RAdd(a, b) == IF IsNaN(a) \/ IsNaN(b) THEN NaN
              ELSE LET l == LCM(a.d, b.d)
                   IN  Norm(a.n * (l \div a.d) + b.n * (l \div b.d), l)

RNeg(a) == IF IsNaN(a) THEN NaN ELSE [n |-> -a.n, d |-> a.d]

RSub(a, b) == RAdd(a, RNeg(b))

RMul(a, b) == IF IsNaN(a) \/ IsNaN(b) THEN NaN
              ELSE LET g1 == GCD(Abs(a.n), b.d)
                       g2 == GCD(Abs(b.n), a.d)
                   IN  IF a.n = 0 \/ b.n = 0 THEN [n |-> 0, d |-> 1]
                       ELSE [n |-> (a.n \div g1) * (b.n \div g2),
                             d |-> (a.d \div g2) * (b.d \div g1)]

\* 1 / b for b # 0
RInv(b) == IF b.n < 0 THEN [n |-> -b.d, d |-> -b.n] ELSE [n |-> b.d, d |-> b.n]

\* a / b for b # 0 (every divisor of the model is a difference of two
\* distinct axis values or a positive count)
RDiv(a, b) == IF IsNaN(a) \/ IsNaN(b) THEN NaN ELSE RMul(a, RInv(b))

RLess(a, b) == /\ ~IsNaN(a)
               /\ ~IsNaN(b)
               /\ LET l == LCM(a.d, b.d) IN a.n * (l \div a.d) < b.n * (l \div b.d)

RLeq(a, b) == /\ ~IsNaN(a)
              /\ ~IsNaN(b)
              /\ LET l == LCM(a.d, b.d) IN a.n * (l \div a.d) <= b.n * (l \div b.d)

-----------------------------------------------------------------------------
(* str(x) of a Python float, as a sequence of characters *)

DigitChars == << "0", "1", "2", "3", "4", "5", "6", "7", "8", "9" >>

Dig(i) == DigitChars[i + 1]

RECURSIVE Digits(_)
Digits(m) == IF m < 10 THEN << Dig(m) >> ELSE Digits(m \div 10) \o << Dig(m % 10) >>

\* decimal digits of r/d, 0 <= r < d, d a divisor of a power of ten
RECURSIVE FracDigits(_, _)
FracDigits(r, d) == IF r = 0 THEN << >>
                    ELSE << Dig((r * 10) \div d) >> \o FracDigits((r * 10) % d, d)

\* least k with m * 10^k >= d, for m > 0
RECURSIVE SciExp(_, _)
SciExp(m, d) == IF m >= d THEN 0 ELSE 1 + SciExp(m * 10, d)

RECURSIVE Pow10(_)
Pow10(k) == IF k = 0 THEN 1 ELSE 10 * Pow10(k - 1)

\* repr of a float: "nan"; a leading "-" for negatives; exponent notation
\* ("1e-05") below 1e-4; otherwise digits "." digits ("5.0", "12.25")
PyStr(x) ==
    IF IsNaN(x) THEN << "n", "a", "n" >>
    ELSE LET m    == Abs(x.n)
             sign == IF x.n < 0 THEN << "-" >> ELSE << >>
         IN  IF m # 0 /\ m * 10000 < x.d
             THEN LET k  == SciExp(m, x.d)
                      mm == m * Pow10(k)
                      fr == FracDigits(mm % x.d, x.d)
                  IN  sign \o << Dig(mm \div x.d) >>
                           \o (IF fr = << >> THEN << >> ELSE << "." >> \o fr)
                           \o << "e", "-" >>
                           \o (IF k < 10 THEN << "0" >> ELSE << >>) \o Digits(k)
             ELSE LET fr == FracDigits(m % x.d, x.d)
                  IN  sign \o Digits(m \div x.d) \o << "." >>
                           \o (IF fr = << >> THEN << "0" >> ELSE fr)

\* s.replace(c, '')
RECURSIVE StrRemove(_, _)
StrRemove(s, c) == IF s = << >> THEN << >>
                   ELSE (IF Head(s) = c THEN << >> ELSE << Head(s) >>)
                        \o StrRemove(Tail(s), c)

\* s.isdigit()
StrIsDigit(s) == Len(s) > 0 /\ \A i \in 1..Len(s) : \E j \in 1..10 : s[i] = DigitChars[j]

Min(a, b) == IF a < b THEN a ELSE b

\* Op applied to the value of e: e is evaluated once, whatever Op does with it
Com(e, Op(_)) == CHOOSE r \in { Op(v) : v \in { e } } : TRUE

\* Values that are not floats: None, and a str (its characters)
Nenhum == [none |-> TRUE]

Texto(s) == [s |-> s]

EhNenhum(x) == "none" \in DOMAIN x

EhTexto(x) == "s" \in DOMAIN x

\* str(x) of a float or a str
py_str(x) == IF EhTexto(x) THEN x.s ELSE PyStr(x)

\* s.replace(a, b), one character for one character
StrReplace(s, a, b) == [i \in 1..Len(s) |-> IF s[i] = a THEN b ELSE s[i]]

\* position of the first c in s, 0 when there is none
IndexOf(s, c) == IF \E i \in 1..Len(s) : s[i] = c
                 THEN CHOOSE i \in 1..Len(s) : s[i] = c /\ \A j \in 1..(i - 1) : s[j] # c
                 ELSE 0

AllDigits(s) == \A i \in 1..Len(s) : \E j \in 1..10 : s[i] = DigitChars[j]

DigitVal(c) == (CHOOSE j \in 1..10 : DigitChars[j] = c) - 1

RECURSIVE ToInt(_)
ToInt(s) == IF s = << >> THEN 0
            ELSE ToInt(SubSeq(s, 1, Len(s) - 1)) * 10 + DigitVal(s[Len(s)])

\* float(s) of a str: ok is FALSE when it raises ValueError.  Accepted are
\* "nan" and [-] digits [. digits] [e [-] digits] with a digit in the mantissa.
py_float(s) ==
    IF s = << "n", "a", "n" >>
    THEN [ok |-> TRUE, v |-> NaN]
    ELSE LET neg  == s # << >> /\ s[1] = "-"
             body == IF neg THEN Tail(s) ELSE s
             e    == IndexOf(body, "e")
             mant == IF e = 0 THEN body ELSE SubSeq(body, 1, e - 1)
             expo == IF e = 0 THEN << >> ELSE SubSeq(body, e + 1, Len(body))
             eneg == expo # << >> /\ expo[1] = "-"
             edig == IF eneg THEN Tail(expo) ELSE expo
             p    == IndexOf(mant, ".")
             ip   == IF p = 0 THEN mant ELSE SubSeq(mant, 1, p - 1)
             fp   == IF p = 0 THEN << >> ELSE SubSeq(mant, p + 1, Len(mant))
             bem  == /\ ip \o fp # << >>
                     /\ AllDigits(ip) /\ AllDigits(fp)
                     /\ e # 0 => (edig # << >> /\ AllDigits(edig))
         IN  IF ~bem
             THEN [ok |-> FALSE, v |-> NaN]
             ELSE LET m == R(ToInt(ip \o fp), Pow10(Len(fp)))
                      k == R(Pow10(ToInt(edig)), 1)
                      a == IF eneg THEN RDiv(m, k) ELSE RMul(m, k)
                  IN  [ok |-> TRUE, v |-> IF neg THEN RNeg(a) ELSE a]



-----------------------------------------------------------------------------
(* SimpleInterpolator *)

\* the per-value conversion of linear_interpolation / conservative_interpolation:
\* float(x) if x is not None and str(x).replace(',', '').replace('.', '').isdigit()
\* else nan.  The values reaching it are floats (interpolar_parametro converts
\* them first), so float(x) = x.
ParseValue(x) ==
    IF StrIsDigit(StrRemove(StrRemove(PyStr(x), ","), ".")) THEN x ELSE NaN

ParseValues(values) == [i \in 1..Len(values) |-> ParseValue(values[i])]

\* known_indices, ascending
RECURSIVE KnownFrom(_, _)
KnownFrom(values, i) ==
    IF i > Len(values) THEN << >>
    ELSE (IF IsNaN(values[i]) THEN << >> ELSE << i >>) \o KnownFrom(values, i + 1)

known_indices(values) == KnownFrom(values, 1)

\* the inner loop over j in range(start_idx + 1, end_idx)
FillBetween(ids, values, result, start_idx, end_idx) ==
    [j \in 1..Len(result) |->
        IF start_idx < j /\ j < end_idx
        THEN LET factor == RDiv(RSub(ids[j], ids[start_idx]),
                                RSub(ids[end_idx], ids[start_idx]))
             IN  RAdd(values[start_idx],
                      RMul(RSub(values[end_idx], values[start_idx]), factor))
        ELSE result[j]]

\* the loop over i in range(len(known_indices) - 1) of linear_interpolation
RECURSIVE LinearLoop(_, _, _, _, _)
LinearLoop(i, known, ids, values, result) ==
    IF i > Len(known) - 1 THEN result
    ELSE LET start_idx == known[i]
             end_idx   == known[i + 1]
         IN  LinearLoop(i + 1, known, ids, values,
                 IF end_idx - start_idx > 1
                 THEN FillBetween(ids, values, result, start_idx, end_idx)
                 ELSE result)

linear_interpolation(ids, values0) ==
    LET values == ParseValues(values0)
    IN  LinearLoop(1, known_indices(values), ids, values, values)

\* the loop of conservative_interpolation: gap_size = end_idx - start_idx
RECURSIVE ConservativeLoop(_, _, _, _, _, _)
ConservativeLoop(i, known, ids, values, result, max_gap) ==
    IF i > Len(known) - 1 THEN result
    ELSE LET start_idx == known[i]
             end_idx   == known[i + 1]
             gap_size  == end_idx - start_idx
         IN  ConservativeLoop(i + 1, known, ids, values,
                 IF 1 < gap_size /\ gap_size <= max_gap
                 THEN FillBetween(ids, values, result, start_idx, end_idx)
                 ELSE result,
                 max_gap)

conservative_interpolation(ids, values0, max_gap) ==
    LET values == ParseValues(values0)
    IN  ConservativeLoop(1, known_indices(values), ids, values, values, max_gap)

\* the default of the max_gap parameter, also what interpolar_ph passes
MaxGapDefault == 2

-----------------------------------------------------------------------------
(* simular_transmissao_intervalo, on one column *)

\* the mask taken on the id values 1 .. n instead of the positions
mask_por_id(n, intervalo) == [i \in 1..n |-> (i % intervalo) = 0]

\* mask_transmitidos = (indices % intervalo) == 0, indices = 0 .. n-1
mask_transmitidos(n, intervalo) == [i \in 1..n |-> ((i - 1) % intervalo) = 0]

\* np.where(mask_transmitidos, valores_originais, np.nan)
MascararColuna(valores, intervalo) ==
    LET mask == mask_transmitidos(Len(valores), intervalo)
    IN  [i \in 1..Len(valores) |-> IF mask[i] THEN valores[i] ELSE NaN]

-----------------------------------------------------------------------------
(* interpolar_linear_npontos / interpolar_logaritmica_npontos *)

\* -log10(10^-a + fator * (10^-b - 10^-a)) is kept as the term it is
LogTerm(a, b, fator) == [log_de |-> a, log_ate |-> b, fator |-> fator]

IsLogTerm(x) == "fator" \in DOMAIN x

interpolar_linear_npontos(valores, espacamento) ==
    LET n == Len(valores)
    IN  [i1 \in 1..n |->
            LET i            == i1 - 1
                idx_anterior == i - (i % espacamento)
                idx_proximo  == idx_anterior + espacamento
            IN  IF i % espacamento = 0 THEN valores[i1]
                ELSE IF idx_proximo >= n THEN valores[idx_anterior + 1]
                ELSE LET fator == R(i - idx_anterior, espacamento)
                     IN  RAdd(valores[idx_anterior + 1],
                              RMul(fator, RSub(valores[idx_proximo + 1],
                                               valores[idx_anterior + 1])))]

interpolar_logaritmica_npontos(ph_valores, espacamento) ==
    LET n == Len(ph_valores)
    IN  [i1 \in 1..n |->
            LET i            == i1 - 1
                idx_anterior == i - (i % espacamento)
                idx_proximo  == idx_anterior + espacamento
            IN  IF i % espacamento = 0 THEN ph_valores[i1]
                ELSE IF idx_proximo >= n THEN ph_valores[idx_anterior + 1]
                ELSE LogTerm(ph_valores[idx_anterior + 1], ph_valores[idx_proximo + 1],
                             R(i - idx_anterior, espacamento))]

-----------------------------------------------------------------------------
(* InterpoladorSeletivo.interpolar *)

\* last position j with xp[j] <= x, 0 when there is none
LastLeq(xp, x, j) ==
    IF \E i \in 1..j : RLeq(xp[i], x)
    THEN CHOOSE i \in 1..j : /\ RLeq(xp[i], x)
                             /\ \A k \in (i + 1)..j : ~RLeq(xp[k], x)
    ELSE 0

\* np.interp(x, xp, fp) at one point, xp non-decreasing: the edge value
\* outside [xp[0], xp[-1]], the chord between the two neighbours inside
np_interp1(x, xp, fp) ==
    LET n == Len(xp)
        j == LastLeq(xp, x, n)
    IN  IF j = 0 THEN fp[1]
        ELSE IF j = n THEN fp[n]
        ELSE IF xp[j + 1] = xp[j] THEN fp[j]
        ELSE RAdd(RMul(RDiv(RSub(fp[j + 1], fp[j]), RSub(xp[j + 1], xp[j])),
                       RSub(x, xp[j])),
                  fp[j])

np_interp(x_new, xp, fp) == [i \in 1..Len(x_new) |-> np_interp1(x_new[i], xp, fp)]

\* np.clip(y, lo, hi) at one point; NaN stays NaN
clip1(y, lo, hi) ==
    IF IsNaN(y) THEN NaN ELSE IF RLess(y, lo) THEN lo ELSE IF RLess(hi, y) THEN hi ELSE y

np_clip(ys, lo, hi) == [i \in 1..Len(ys) |-> clip1(ys[i], lo, hi)]

\* the values as they are, without the floor
np_sem_piso(ys) == ys

\* np.maximum(y, 0)
np_maximum0(ys) ==
    [i \in 1..Len(ys) |-> IF IsNaN(ys[i]) THEN NaN
                          ELSE IF RLess(ys[i], R(0, 1)) THEN R(0, 1) ELSE ys[i]]

\* upper clip of the logarithmic (pH) branch
PhMax == 14
\* upper clip of the polynomial branch, for ec and for do
EcDoMax == 20
\* highest spline degree: k = min(3, len(x_known) - 1)
SplineGrau == 3

StrictlyIncreasing(xs) == \A i \in 1..(Len(xs) - 1) : RLess(xs[i], xs[i + 1])

RECURSIVE LagrangeProd(_, _, _, _)
LagrangeProd(x, xs, i, j) ==
    IF j > Len(xs) THEN R(1, 1)
    ELSE IF j = i THEN LagrangeProd(x, xs, i, j + 1)
    ELSE RMul(RDiv(RSub(x, xs[j]), RSub(xs[i], xs[j])), LagrangeProd(x, xs, i, j + 1))

RECURSIVE LagrangeSum(_, _, _, _)
LagrangeSum(x, xs, ys, i) ==
    IF i > Len(xs) THEN R(0, 1)
    ELSE RAdd(RMul(ys[i], LagrangeProd(x, xs, i, 1)), LagrangeSum(x, xs, ys, i + 1))

\* splrep(x, y, s=0, k=min(3, n-1)) followed by splev: with n <= k + 1 points
\* the interpolating spline has no interior knot and is the polynomial of
\* degree n - 1 through the points (splev extends it outside the range)
spline_eval(x_new, x_known, y_known) ==
    [i \in 1..Len(x_new) |-> LagrangeSum(x_new[i], x_known, y_known, 1)]

\* splrep refuses abscissae that are not strictly increasing
splrep_falha(x_known) == ~StrictlyIncreasing(x_known)

interpolar(x_known, y_known, x_new, metodo, sensor_type) ==
    IF Len(x_known) < 2
    THEN [i \in 1..Len(x_new) |-> IF Len(y_known) > 0 THEN y_known[1] ELSE NaN]
    ELSE IF metodo = "logarithmic"
    THEN np_clip(np_interp(x_new, x_known, y_known), R(0, 1), R(PhMax, 1))
    ELSE IF metodo = "polynomial" /\ sensor_type \in {"ec", "do"}
    THEN IF splrep_falha(x_known)
         THEN np_maximum0(np_interp(x_new, x_known, y_known))
         ELSE np_clip(spline_eval(x_new, x_known, y_known), R(0, 1), R(EcDoMax, 1))
    ELSE np_interp(x_new, x_known, y_known)

-----------------------------------------------------------------------------
(* Inputs *)

\* the floats a batch series is drawn from: ordinary positives, a negative,
\* one below 1e-4, and NaN
Valores == { R(10, 1), R(40, 1), R(-5, 2), R(1, 20000), NaN }

\* the pH readings the spacing-based routines are given
ValoresPh == { R(6, 1), R(7, 1), R(17, 2) }

\* the buffered values interpolar is given: inside and outside the physical
\* ranges, and NaN
ValoresSensor == { R(6, 1), R(7, 1), R(40, 1), R(-5, 2), NaN }

SeriesDe(S, n) == [1..n -> S]

\* the position axis: the ids 1..n of the dataset, or unevenly spaced ids
IdsRegulares(n) == [i \in 1..n |-> R(i, 1)]

IdsIrregulares(n) == [i \in 1..n |-> R(i + (i \div 2), 1)]

\* the points interpolar is asked for: every half unit from one below the
\* first abscissa to one above the last
GradeX(xs) ==
    LET lo == IF Len(xs) = 0 THEN 0 ELSE xs[1].n - 1
        hi == IF Len(xs) = 0 THEN 0 ELSE xs[Len(xs)].n + 1
    IN  [i \in 1..(2 * (hi - lo) + 1) |-> R(2 * lo + i - 1, 2)]

Metodos == { "linear", "logarithmic", "polynomial" }

TiposSensor == { "temperature", "ph", "ec", "do" }

-----------------------------------------------------------------------------
(* Direct calls of the interpolation routines *)

SemSaida == [op |-> "", arg |-> 0, metodo |-> "", sensor |-> "",
             x_new |-> << >>, out |-> << >>]

SemMascara == [feito |-> FALSE, k |-> 0, valores |-> << >>]

\* the arguments are drawn for one of the three programs: "lote" (the batch
\* strategies), "npontos" (the spacing-based routines), "fluxo" (interpolar)
InitInterp ==
    /\ \E n \in 1..MaxLen :
         \E ids \in { IdsRegulares(n), IdsIrregulares(n) } :
           \/ \E vs \in SeriesDe(Valores, n) :
                ent = [alvo |-> "lote", ids |-> ids, valores |-> vs]
           \/ \E vs \in SeriesDe(ValoresPh, n) :
                ent = [alvo |-> "npontos", ids |-> IdsRegulares(n), valores |-> vs]
           \/ \E vs \in SeriesDe(ValoresSensor, n) :
                ent = [alvo |-> "fluxo", ids |-> ids, valores |-> vs]
    /\ mascarada = SemMascara
    /\ sai = SemSaida

ParadoInterp ==
    /\ ent = [alvo |-> "", ids |-> << >>, valores |-> << >>]
    /\ mascarada = SemMascara
    /\ sai = SemSaida

\* simular_transmissao_intervalo(k) on the series
Mascarar(k) ==
    /\ ent.alvo = "lote"
    /\ ~mascarada.feito
    /\ sai.op = ""
    /\ mascarada' = [feito |-> TRUE, k |-> k, valores |-> MascararColuna(ent.valores, k)]
    /\ UNCHANGED << ent, sai, varsAnalisador, varsStream, varsSessao >>

ChamarLinear ==
    /\ mascarada.feito
    /\ sai.op = ""
    /\ sai' = [SemSaida EXCEPT !.op = "linear",
                               !.out = linear_interpolation(ent.ids, mascarada.valores)]
    /\ UNCHANGED << ent, mascarada, varsAnalisador, varsStream, varsSessao >>

ChamarConservative(max_gap) ==
    /\ mascarada.feito
    /\ sai.op = ""
    /\ sai' = [SemSaida EXCEPT !.op = "conservative", !.arg = max_gap,
                 !.out = conservative_interpolation(ent.ids, mascarada.valores, max_gap)]
    /\ UNCHANGED << ent, mascarada, varsAnalisador, varsStream, varsSessao >>

ChamarLinearNPontos(espacamento) ==
    /\ ent.alvo = "npontos"
    /\ sai.op = ""
    /\ sai' = [SemSaida EXCEPT !.op = "linear_npontos", !.arg = espacamento,
                 !.out = interpolar_linear_npontos(ent.valores, espacamento)]
    /\ UNCHANGED << ent, mascarada, varsAnalisador, varsStream, varsSessao >>

ChamarLogaritmicaNPontos(espacamento) ==
    /\ ent.alvo = "npontos"
    /\ sai.op = ""
    /\ sai' = [SemSaida EXCEPT !.op = "logaritmica_npontos", !.arg = espacamento,
                 !.out = interpolar_logaritmica_npontos(ent.valores, espacamento)]
    /\ UNCHANGED << ent, mascarada, varsAnalisador, varsStream, varsSessao >>

\* interpolar on the points of ent; the polynomial branch is called with at
\* most SplineGrau + 1 points (see spline_eval)
ChamarInterpolar(metodo, sensor_type) ==
    /\ ent.alvo = "fluxo"
    /\ sai.op = ""
    /\ metodo = "polynomial" => Len(ent.ids) <= SplineGrau + 1
    /\ sai' = [SemSaida EXCEPT !.op = "interpolar", !.metodo = metodo,
                 !.sensor = sensor_type, !.x_new = GradeX(ent.ids),
                 !.out = interpolar(ent.ids, ent.valores, GradeX(ent.ids),
                                    metodo, sensor_type)]
    /\ UNCHANGED << ent, mascarada, varsAnalisador, varsStream, varsSessao >>

NextInterp ==
    \/ \E k \in 1..MaxIntervalo : Mascarar(k)
    \/ ChamarLinear
    \/ \E g \in 1..MaxGapTestado : ChamarConservative(g)
    \/ \E e \in 1..MaxIntervalo : ChamarLinearNPontos(e)
    \/ \E e \in 1..MaxIntervalo : ChamarLogaritmicaNPontos(e)
    \/ \E m \in Metodos : \E t \in TiposSensor : ChamarInterpolar(m, t)

-----------------------------------------------------------------------------
(* AnalisadorInterpolacaoCorrigido *)

\* longest table drawn as a dataset
MaxLinhas == 3

\* the cells of a dataset column
ValoresTabela == { R(7, 1), R(-5, 2), NaN }

colunas_numericas == { "temperatura", "ph", "ec", "od" }

\* the two datasets of the repository: the columns the loader converts
\* (id, temperatura, ph, ec, od), and the columns criar_dataset_exemplo
\* writes (id, temp, ph, ec, od), whose temp cells stay text
ColunasCarregadas == { "id", "temperatura", "ph", "ec", "od" }

ColunasExemplo == { "id", "temp", "ph", "ec", "od" }

Tabela(colunas, n, a, b) ==
    [c \in colunas |->
        IF c = "id" THEN IdsRegulares(n)
        ELSE IF c \in { "temperatura", "temp", "od" } THEN a
        ELSE b]

NumLinhas(d) == Len(d["id"])

SemTabela == [c \in {"id"} |-> << >>]

InitAnalisador ==
    /\ \E n \in 1..MaxLinhas :
         \E a \in SeriesDe(ValoresTabela, n) :
           \E b \in SeriesDe(ValoresTabela, n) :
             \E colunas \in { ColunasCarregadas, ColunasExemplo } :
               df = Tabela(colunas, n, a, b)
    /\ prox = 1
    /\ df_simulado = SemTabela
    /\ interpolacoes = << >>
    /\ resultados_completos = << >>

ParadoAnalisador ==
    /\ df = SemTabela
    /\ prox = 1
    /\ df_simulado = SemTabela
    /\ interpolacoes = << >>
    /\ resultados_completos = << >>

\* simular_transmissao_intervalo: what self.df is afterwards and the table
\* returned (a copy whose numeric columns are masked by position)
simular_transmissao_intervalo(d, intervalo) ==
    [self_df |-> d,
     retorno |-> [c \in DOMAIN d |->
                    IF c \in colunas_numericas
                    THEN MascararColuna(d[c], intervalo)
                    ELSE d[c]]]

\* _converter_para_float on a float
converter_para_float(valor) ==
    IF EhNenhum(valor)
    THEN NaN
    ELSE IF EhTexto(valor)
    THEN LET f == py_float(StrReplace(valor.s, ",", "."))
         IN  IF f.ok THEN f.v ELSE NaN
    ELSE valor

\* interpolar_parametro: the strategy of each parameter
interpolar_parametro(ids, valores, parametro) ==
    LET ids_float     == [i \in 1..Len(ids) |-> converter_para_float(ids[i])]
        valores_float == [i \in 1..Len(valores) |-> converter_para_float(valores[i])]
    IN  IF parametro = "ph"
        THEN conservative_interpolation(ids_float, valores_float, MaxGapDefault)
        ELSE IF parametro \in { "temperatura", "ec", "od" }
        THEN linear_interpolation(ids_float, valores_float)
        ELSE valores_float

\* (~pd.isna(column)).sum()
ContarNaoNulos(coluna) == Cardinality({ i \in 1..Len(coluna) : ~IsNaN(coluna[i]) })

\* resultado_intervalo as executar_simulacao fills it (the metric fields
\* are not modelled)
resultado_intervalo(sim, intervalo) ==
    [intervalo |-> intervalo,
     pontos_transmitidos |->
        IF "temp" \in DOMAIN sim THEN ContarNaoNulos(sim["temp"]) ELSE 0,
     percentual_transmitido |->
        IF "temp" \in DOMAIN sim
        THEN RMul(RDiv(R(ContarNaoNulos(sim["temp"]), 1), R(NumLinhas(sim), 1)),
                  R(100, 1))
        ELSE R(0, 1)]

\* one iteration of the loop of executar_simulacao over intervalos = 1, 2, ...
ExecutarIntervalo ==
    /\ prox <= MaxIntervalo
    /\ LET r   == simular_transmissao_intervalo(df, prox)
           sim == r.retorno
       IN  /\ df' = r.self_df
           /\ df_simulado' = sim
           /\ interpolacoes' =
                [p \in { q \in colunas_numericas : q \in DOMAIN sim } |->
                    interpolar_parametro(sim["id"], sim[p], p)]
           /\ resultados_completos' =
                Append(resultados_completos, resultado_intervalo(sim, prox))
    /\ prox' = prox + 1
    /\ UNCHANGED << varsInterp, varsStream, varsSessao >>

-----------------------------------------------------------------------------
(* GerenciadorDados and its two threads *)

\* capacity of a sensor's buffer
MaxPontos == 1000

\* adicionar_ponto calls started in one run
MaxChamadas == 3

\* the clock when the run starts, in seconds since the epoch
AgoraInicial == 1794000000

\* the sensors the producer sends readings of
SensoresIngeridos == { "ph", "ec" }

\* a value float() converts, and one it refuses
ValoresRecebidos == { [ok |-> TRUE, v |-> R(7, 1)], [ok |-> FALSE, v |-> NaN] }

Linha(timestamp, value, interpolation) ==
    [timestamp |-> timestamp, value |-> value, interpolation |-> interpolation]

SemChamada == [sensor_type |-> "", timestamp |-> 0, value |-> [ok |-> FALSE, v |-> NaN],
               interpolation |-> ""]

SemLeitura == [op |-> "", sensor_type |-> ""]

\* the buffer of "ph" after n appends of valid readings with timestamps 1 .. n
Preenchido(n) == [i \in 1..n |-> Linha(i, R(7, 1), "logarithmic")]

\* GerenciadorDados.__init__, or the state MaxPontos - 1 appends of "ph"
\* readings lead to (the capacity is out of reach of a run of MaxChamadas
\* calls from the empty buffer)
InitStream ==
    /\ \E n \in { 0, MaxPontos - 1 } :
         /\ sensor_data = [t \in TiposSensor |-> IF t = "ph" THEN Preenchido(n) ELSE << >>]
         /\ historico = [t \in TiposSensor |-> IF t = "ph" THEN Preenchido(n) ELSE << >>]
         /\ messages_received = n
         /\ last_message_time = IF n = 0 THEN "None" ELSE "now"
    /\ data_lock = "livre"
    /\ pc_ing = "ocioso"
    /\ ing = SemChamada
    /\ pc_disp = "ocioso"
    /\ disp = SemLeitura
    /\ snap = << >>
    /\ n_chamadas = 0
    /\ agora = AgoraInicial

ParadoStream ==
    /\ sensor_data = [t \in TiposSensor |-> << >>]
    /\ messages_received = 0
    /\ last_message_time = "None"
    /\ data_lock = "livre"
    /\ pc_ing = "ocioso"
    /\ ing = SemChamada
    /\ pc_disp = "ocioso"
    /\ disp = SemLeitura
    /\ snap = << >>
    /\ historico = [t \in TiposSensor |-> << >>]
    /\ n_chamadas = 0
    /\ agora = AgoraInicial

\* the first MaxPontos rows instead of the last
ManterPrimeiros(rows) == SubSeq(rows, 1, MaxPontos)

\* df.iloc[-1000:]
ManterUltimos(rows) == SubSeq(rows, Len(rows) - MaxPontos + 1, Len(rows))

\* ---- ingestion thread: adicionar_ponto(sensor_type, timestamp, value, interpolation)

\* with self.data_lock: (entered by the MQTT callback thread)
IngAdquirir(sensor_type, value, interpolation) ==
    /\ pc_ing = "ocioso"
    /\ n_chamadas < MaxChamadas
    /\ data_lock = "livre"
    /\ data_lock' = "ingestao"
    /\ n_chamadas' = n_chamadas + 1
    /\ ing' = [sensor_type |-> sensor_type, timestamp |-> MaxPontos + n_chamadas + 1,
               value |-> value, interpolation |-> interpolation]
    /\ pc_ing' = "trancado"
    /\ UNCHANGED << sensor_data, messages_received, last_message_time,
                    pc_disp, disp, snap, historico, agora, varsAnalisador, varsInterp,
                    varsSessao >>

\* new_row with float(value), then self.sensor_data[sensor_type] = pd.concat(...)
IngConcatenar ==
    /\ pc_ing = "trancado"
    /\ ing.value.ok
    /\ LET new_row == Linha(ing.timestamp, ing.value.v, ing.interpolation)
       IN  /\ sensor_data' = [sensor_data EXCEPT ![ing.sensor_type] = Append(@, new_row)]
           /\ historico' = [historico EXCEPT ![ing.sensor_type] = Append(@, new_row)]
    /\ pc_ing' = "concatenado"
    /\ UNCHANGED << messages_received, last_message_time, data_lock, ing, n_chamadas,
                    pc_disp, disp, snap, agora, varsAnalisador, varsInterp, varsSessao >>

\* float(value) raises ValueError/TypeError: the with block is left, the lock
\* released, the error logged; nothing is stored
IngFalhar ==
    /\ pc_ing = "trancado"
    /\ ~ing.value.ok
    /\ data_lock' = "livre"
    /\ pc_ing' = "ocioso"
    /\ ing' = SemChamada
    /\ UNCHANGED << sensor_data, messages_received, last_message_time, n_chamadas,
                    pc_disp, disp, snap, historico, agora, varsAnalisador, varsInterp,
                    varsSessao >>

\* if len(...) > 1000: self.sensor_data[sensor_type] = ....iloc[-1000:]
IngAparar ==
    /\ pc_ing = "concatenado"
    /\ sensor_data' =
         IF Len(sensor_data[ing.sensor_type]) > MaxPontos
         THEN [sensor_data EXCEPT ![ing.sensor_type] = ManterUltimos(@)]
         ELSE sensor_data
    /\ pc_ing' = "aparado"
    /\ UNCHANGED << messages_received, last_message_time, data_lock, ing, n_chamadas,
                    pc_disp, disp, snap, historico, agora, varsAnalisador, varsInterp,
                    varsSessao >>

\* messages_received += 1; last_message_time = now; the with block ends
IngContarSoltar ==
    /\ pc_ing = "aparado"
    /\ messages_received' = messages_received + 1
    /\ last_message_time' = "now"
    /\ data_lock' = "livre"
    /\ pc_ing' = "ocioso"
    /\ ing' = SemChamada
    /\ UNCHANGED << sensor_data, n_chamadas, pc_disp, disp, snap, historico,
                    agora, varsAnalisador, varsInterp, varsSessao >>

\* ---- display thread

\* the reads that take the lock: obter_dados_interpolados and obter_dados_brutos
\* (df = ....copy()), obter_valor_mais_recente (df = ..., the frame itself;
\* frames are replaced by adicionar_ponto, never changed in place)
LeiturasComLock == { "obter_dados_interpolados", "obter_dados_brutos",
                     "obter_valor_mais_recente" }

\* the order main and tem_dados go through the buffers in
OrdemSensores == << "temperature", "ph", "ec", "do" >>

Posicao(sensor_type) == CHOOSE i \in 1..Len(OrdemSensores) : OrdemSensores[i] = sensor_type

\* with self.data_lock:
DispAdquirir(op, sensor_type) ==
    /\ pc_disp = "ocioso"
    /\ op \in LeiturasComLock
    /\ data_lock = "livre"
    /\ data_lock' = "exibicao"
    /\ disp' = [op |-> op, sensor_type |-> sensor_type]
    /\ pc_disp' = "trancado"
    /\ UNCHANGED << sensor_data, messages_received, last_message_time, pc_ing, ing,
                    snap, historico, n_chamadas, agora, varsAnalisador, varsInterp,
                    varsSessao >>

\* df = self.sensor_data[sensor_type] (.copy()); the with block ends
DispCopiarSoltar ==
    /\ pc_disp = "trancado"
    /\ snap' = sensor_data[disp.sensor_type]
    /\ data_lock' = "livre"
    /\ pc_disp' = "calculando"
    /\ UNCHANGED << sensor_data, messages_received, last_message_time, pc_ing, ing,
                    disp, historico, n_chamadas, agora, varsAnalisador, varsInterp,
                    varsSessao >>

\* tem_dados: any(len(df) > 0 for df in self.sensor_data.values()), no lock
\* taken; the first buffer is read
DispTemDados ==
    /\ pc_disp = "ocioso"
    /\ snap' = sensor_data[OrdemSensores[1]]
    /\ disp' = [op |-> "tem_dados", sensor_type |-> OrdemSensores[1]]
    /\ pc_disp' = "calculando"
    /\ UNCHANGED << sensor_data, messages_received, last_message_time, data_lock,
                    pc_ing, ing, historico, n_chamadas, agora, varsAnalisador, varsInterp,
                    varsSessao >>

\* the next buffer is read without the lock: by tem_dados after an empty
\* buffer, by the point count of main after any
DispProximoBuffer ==
    /\ pc_disp = "calculando"
    /\ \/ disp.op = "tem_dados" /\ Len(snap) = 0
       \/ disp.op = "contagem"
    /\ Posicao(disp.sensor_type) < Len(OrdemSensores)
    /\ LET t == OrdemSensores[Posicao(disp.sensor_type) + 1]
       IN  /\ snap' = sensor_data[t]
           /\ disp' = [disp EXCEPT !.sensor_type = t]
    /\ UNCHANGED << sensor_data, messages_received, last_message_time, data_lock,
                    pc_ing, ing, pc_disp, historico, n_chamadas,
                    agora, varsAnalisador, varsInterp, varsSessao >>

\* tem_dados found every buffer empty and main shows the point counts:
\* count = len(...sensor_data[sensor_type]), no lock taken
DispContar ==
    /\ pc_disp = "calculando"
    /\ disp.op = "tem_dados"
    /\ Len(snap) = 0
    /\ Posicao(disp.sensor_type) = Len(OrdemSensores)
    /\ snap' = sensor_data[OrdemSensores[1]]
    /\ disp' = [op |-> "contagem", sensor_type |-> OrdemSensores[1]]
    /\ UNCHANGED << sensor_data, messages_received, last_message_time, data_lock,
                    pc_ing, ing, pc_disp, historico, n_chamadas,
                    agora, varsAnalisador, varsInterp, varsSessao >>

\* the read returns: a locked read with its rows, tem_dados at the first
\* buffer that is not empty, the point count after the last buffer
DispRetornar ==
    /\ pc_disp = "calculando"
    /\ \/ disp.op \in LeiturasComLock
       \/ disp.op = "tem_dados" /\ Len(snap) > 0
       \/ disp.op = "contagem" /\ Posicao(disp.sensor_type) = Len(OrdemSensores)
    /\ pc_disp' = "ocioso"
    /\ disp' = SemLeitura
    /\ snap' = << >>
    /\ UNCHANGED << sensor_data, messages_received, last_message_time, data_lock,
                    pc_ing, ing, historico, n_chamadas, agora, varsAnalisador, varsInterp,
                    varsSessao >>

NextStream ==
    \/ \E t \in SensoresIngeridos : \E v \in ValoresRecebidos :
          IngAdquirir(t, v, IF t = "ph" THEN "logarithmic" ELSE "polynomial")
    \/ IngConcatenar
    \/ IngFalhar
    \/ IngAparar
    \/ IngContarSoltar
    \/ \E op \in LeiturasComLock : \E t \in TiposSensor : DispAdquirir(op, t)
    \/ DispCopiarSoltar
    \/ DispTemDados
    \/ DispProximoBuffer
    \/ DispContar
    \/ DispRetornar

-----------------------------------------------------------------------------
(* ClienteMQTT._processar_dados_sensores and the reads of GerenciadorDados, *)
(* called one after the other                                               *)

\* A timestamp is the number 1000 * mil + un with 0 <= un < 1000:
\* milliseconds since the epoch are beyond the integers of the checker.
Num(mil, un) == [mil |-> mil, un |-> un]

NumLess(a, b) == a.mil < b.mil \/ (a.mil = b.mil /\ a.un < b.un)

\* timestamp * 1000
NumVezesMil(a) == Num(a.mil * 1000 + a.un, 0)

\* 2e9, in thousands: below it a timestamp is taken to be in seconds
LimiteSegundosMil == 2000000
\* 1e12, in thousands: above it a stored timestamp is taken to be in ms
LimiteMilissegundosMil == 1000000000
\* 86400000 ms, in seconds
DiaSegundos == 86400
\* timedelta(hours=1), in seconds
HoraSegundos == 3600

\* readings received in one run
MaxLeituras == 3

\* a timestamp sent o seconds before the clock, in seconds or in milliseconds
Enviado(o, unidade) ==
    IF unidade = "s"
    THEN Num((AgoraInicial - o) \div 1000, (AgoraInicial - o) % 1000)
    ELSE Num(AgoraInicial - o, 0)

Leitura(sensor_type, value, timestamp, interpolation) ==
    [sensor_type |-> sensor_type, value |-> value, timestamp |-> timestamp,
     interpolation |-> interpolation]

\* the readings a producer sends: two hours, one hour and no time ago, one
\* three days old, one whose value float() refuses; those of one sensor
\* declare different methods, one of them a tag interpolar does not know
LeiturasPossiveis ==
    { Leitura("ph", [ok |-> TRUE, v |-> R(6, 1)], Enviado(2 * HoraSegundos, "ms"), "polynomial"),
      Leitura("ph", [ok |-> TRUE, v |-> R(7, 1)], Enviado(HoraSegundos, "s"), "logarithmic"),
      Leitura("ph", [ok |-> TRUE, v |-> R(7, 1)], Enviado(0, "ms"), "logarithmic"),
      Leitura("ph", [ok |-> TRUE, v |-> R(6, 1)], Enviado(3 * DiaSegundos, "ms"), "logarithmic"),
      Leitura("ph", [ok |-> FALSE, v |-> NaN], Enviado(0, "ms"), "logarithmic"),
      Leitura("ec", [ok |-> TRUE, v |-> R(40, 1)], Enviado(2 * HoraSegundos, "ms"), "polynomial"),
      Leitura("ec", [ok |-> TRUE, v |-> R(-5, 2)], Enviado(0, "s"), "polynomial"),
      Leitura("ec", [ok |-> TRUE, v |-> R(40, 1)], Enviado(HoraSegundos, "ms"), "cubic") }

Mensagens == UNION { [1..n -> LeiturasPossiveis] : n \in 1..MaxLeituras }

\* adicionar_ponto keeping no row once the capacity is passed
adicionar_ponto_esvaziando(gd, sensor_type, timestamp, value, interpolation_type) ==
    IF ~value.ok
    THEN gd
    ELSE LET rows == Append(gd.sensor_data[sensor_type],
                            Linha(timestamp, value.v, interpolation_type))
         IN  [gd EXCEPT !.sensor_data[sensor_type] =
                            IF Len(rows) > MaxPontos THEN << >> ELSE rows,
                        !.messages_received = @ + 1,
                        !.last_message_time = "now"]

\* adicionar_ponto from start to end; gd is the GerenciadorDados
adicionar_ponto(gd, sensor_type, timestamp, value, interpolation_type) ==
    IF ~value.ok
    THEN gd
    ELSE LET rows == Append(gd.sensor_data[sensor_type],
                            Linha(timestamp, value.v, interpolation_type))
         IN  [gd EXCEPT !.sensor_data[sensor_type] =
                            IF Len(rows) > MaxPontos THEN ManterUltimos(rows) ELSE rows,
                        !.messages_received = @ + 1,
                        !.last_message_time = "now"]

\* the timestamp handed on when one in seconds is left as it is
timestamp_sem_escala(timestamp, current_time) ==
    IF NumLess(timestamp, Num(LimiteSegundosMil, 0))
    THEN timestamp
    ELSE IF NumLess(timestamp, Num(current_time - DiaSegundos, 0))
    THEN Num(current_time, 0)
    ELSE timestamp

\* the timestamp _processar_dados_sensores hands to adicionar_ponto
timestamp_ajustado(timestamp, current_time) ==
    LET em_ms == IF NumLess(timestamp, Num(LimiteSegundosMil, 0))
                 THEN NumVezesMil(timestamp)
                 ELSE timestamp
    IN  IF NumLess(em_ms, Num(current_time - DiaSegundos, 0))
        THEN Num(current_time, 0)
        ELSE em_ms

\* a timestamp that is a number (JSON may carry a string)
EhNumero(timestamp) == "mil" \in DOMAIN timestamp

\* self.sensor_data[sensor_type] raises KeyError for a sensor the object has
\* no buffer of; except (ValueError, TypeError) does not catch it
adicionar_ponto_levanta(sensor_type) == sensor_type \notin TiposSensor

\* the loop of _processar_dados_sensores from reading i on, and whether it
\* ended by an exception (timestamp < 2e9 raises TypeError for a timestamp
\* that is no number); gd.recebidas is the ghost of the readings handed to
\* adicionar_ponto and stored, as received
RECURSIVE processar_dados_sensores(_, _, _, _)
processar_dados_sensores(gd, readings, i, current_time) ==
    IF i > Len(readings)
    THEN [gd |-> gd, levantou |-> FALSE]
    ELSE LET reading == readings[i]
             passa == reading.sensor_type # "" /\ reading.timestamp # Num(0, 0)
         IN  IF ~passa
             THEN processar_dados_sensores(gd, readings, i + 1, current_time)
             ELSE IF ~EhNumero(reading.timestamp)
                     \/ adicionar_ponto_levanta(reading.sensor_type)
             THEN [gd |-> gd, levantou |-> TRUE]
             ELSE LET depois == adicionar_ponto(gd, reading.sensor_type,
                                    timestamp_ajustado(reading.timestamp, current_time),
                                    reading.value, reading.interpolation)
                      guardada == [depois EXCEPT !.recebidas[reading.sensor_type] =
                                       IF reading.value.ok THEN Append(@, reading) ELSE @]
                  IN  processar_dados_sensores(guardada, readings, i + 1, current_time)

\* pd.to_datetime(df['timestamp'], unit=...), as milliseconds since the epoch
to_datetime(timestamp, unit) == IF unit = "ms" THEN timestamp ELSE NumVezesMil(timestamp)

\* df['datetime'] = ...: the unit is decided by the first row's timestamp
com_datetime(rows) ==
    LET sample_timestamp == rows[1].timestamp
        unit == IF NumLess(Num(LimiteMilissegundosMil, 0), sample_timestamp)
                THEN "ms" ELSE "s"
    IN  [i \in 1..Len(rows) |->
            [timestamp |-> rows[i].timestamp, value |-> rows[i].value,
             interpolation |-> rows[i].interpolation,
             datetime |-> to_datetime(rows[i].timestamp, unit)]]

\* insertion of a row into rows sorted by datetime, after the rows that are
\* not later (ascending) or not earlier (descending) than it
RECURSIVE inserir(_, _, _)
inserir(rows, r, ascending) ==
    IF rows = << >>
    THEN << r >>
    ELSE IF (ascending /\ NumLess(r.datetime, rows[1].datetime))
            \/ (~ascending /\ NumLess(rows[1].datetime, r.datetime))
         THEN << r >> \o rows
         ELSE << rows[1] >> \o inserir(Tail(rows), r, ascending)

\* rows already in the order asked for
Ordenadas(rows, ascending) ==
    \A i \in 1..(Len(rows) - 1) :
        IF ascending THEN ~NumLess(rows[i + 1].datetime, rows[i].datetime)
        ELSE ~NumLess(rows[i].datetime, rows[i + 1].datetime)

RECURSIVE ordenar_por_insercao(_, _)
ordenar_por_insercao(rows, ascending) ==
    IF rows = << >>
    THEN << >>
    ELSE inserir(ordenar_por_insercao(SubSeq(rows, 1, Len(rows) - 1), ascending),
                 rows[Len(rows)], ascending)

\* df.sort_values('datetime', ascending=...): rows in order stay as they are
sort_values(rows, ascending) ==
    IF Ordenadas(rows, ascending) THEN rows ELSE ordenar_por_insercao(rows, ascending)

\* pd.date_range(start, end, freq=f'{interval_seconds}S')
date_range(start, end, interval_seconds) ==
    LET ms == (end.mil - start.mil) * 1000 + (end.un - start.un)
        k == ms \div (interval_seconds * 1000)
    IN  [i \in 1..(k + 1) |-> Num(start.mil + (i - 1) * interval_seconds, start.un)]

\* datetime.astype(np.int64) // 10**6 as handed to interpolar, in seconds
\* (interpolar uses x only through differences and their ratios)
eixo(datetime) == RAdd(R(datetime.mil, 1), R(datetime.un, 1000))

SemLinhas == << >>

\* obter_dados_brutos(sensor_type, horas) on the rows of the sensor
obter_dados_brutos(rows, horas, now) ==
    IF rows = << >>
    THEN SemLinhas
    ELSE LET d == com_datetime(rows)
             cutoff == Num(now - horas * HoraSegundos, 0)
             filtered == SelectSeq(d, LAMBDA r : ~NumLess(r.datetime, cutoff))
         IN  [i \in 1..Len(filtered) |->
                 [timestamp |-> filtered[i].timestamp, value |-> filtered[i].value,
                  interpolation |-> filtered[i].interpolation,
                  datetime |-> filtered[i].datetime, is_interpolated |-> FALSE]]

\* the rows of interpolated_df for the sorted frame d and the grid
\* the method of the row received last
metodo_da_ultima(d) == d[Len(d)].interpolation

\* metodo_interpolacao = df['interpolation'].iloc[0], d the sorted rows
metodo_interpolacao(d) == d[1].interpolation

linhas_interpoladas(d, regular_times, sensor_type) ==
    Com(interpolar([i \in 1..Len(d) |-> eixo(d[i].datetime)],
                   [i \in 1..Len(d) |-> d[i].value],
                   [i \in 1..Len(regular_times) |-> eixo(regular_times[i])],
                   metodo_interpolacao(d), sensor_type),
        LAMBDA y_new :
            [i \in 1..Len(regular_times) |->
                [datetime |-> regular_times[i], value |-> y_new[i],
                 interpolation |-> metodo_interpolacao(d), is_interpolated |-> TRUE]])

\* obter_dados_interpolados(sensor_type, interval_seconds) on the rows of the sensor
obter_dados_interpolados(rows, sensor_type, interval_seconds) ==
    IF Len(rows) < 2
    THEN SemLinhas
    ELSE Com(sort_values(com_datetime(rows), TRUE),
             LAMBDA d :
                 SelectSeq(linhas_interpoladas(
                               d, date_range(d[1].datetime, d[Len(d)].datetime,
                                             interval_seconds),
                               sensor_type),
                           LAMBDA r : ~IsNaN(r.value)))

\* the same rows with the earliest first
obter_dados_combinados_ascendente(rows, sensor_type, horas, interval_seconds, now) ==
    sort_values(obter_dados_brutos(rows, horas, now)
                  \o obter_dados_interpolados(rows, sensor_type, interval_seconds),
                TRUE)

\* obter_dados_combinados(sensor_type, horas, interval_seconds)
obter_dados_combinados(rows, sensor_type, horas, interval_seconds, now) ==
    sort_values(obter_dados_brutos(rows, horas, now)
                  \o obter_dados_interpolados(rows, sensor_type, interval_seconds),
                FALSE)

\* the trailing windows and the grid step the dashboard asks for
HorasPedidas == { 1, 24 }
IntervalosPedidos == { HoraSegundos }

SemConsulta == [op |-> "", sensor_type |-> "", horas |-> 0, interval_seconds |-> 0,
                retorno |-> << >>]

InitLeitura ==
    /\ sensor_data = [t \in TiposSensor |-> << >>]
    /\ messages_received = 0
    /\ last_message_time = "None"
    /\ historico = [t \in TiposSensor |-> << >>]
    /\ n_chamadas = 0
    /\ agora = AgoraInicial
    /\ data_lock = "livre"
    /\ pc_ing = "ocioso"
    /\ ing = SemChamada
    /\ pc_disp = "ocioso"
    /\ disp = SemLeitura
    /\ snap = << >>
    /\ ent = [alvo |-> "", ids |-> << >>, valores |-> << >>]
    /\ mascarada = SemMascara
    /\ sai = SemConsulta

\* on_message hands the readings of one message to _processar_dados_sensores
ProcessarDadosSensores(readings) ==
    /\ n_chamadas + Len(readings) <= MaxLeituras
    /\ LET gd == processar_dados_sensores(
                     [sensor_data |-> sensor_data, messages_received |-> messages_received,
                      last_message_time |-> last_message_time, recebidas |-> historico],
                     readings, 1, agora).gd
       IN  /\ sensor_data' = gd.sensor_data
           /\ messages_received' = gd.messages_received
           /\ last_message_time' = gd.last_message_time
           /\ historico' = gd.recebidas
    /\ n_chamadas' = n_chamadas + Len(readings)
    /\ sai' = SemConsulta
    /\ UNCHANGED << data_lock, pc_ing, ing, pc_disp, disp, snap, agora, ent, mascarada,
                    varsAnalisador, varsSessao >>

ObterDadosBrutos(sensor_type, horas) ==
    /\ sai' = [op |-> "obter_dados_brutos", sensor_type |-> sensor_type, horas |-> horas,
               interval_seconds |-> 0,
               retorno |-> obter_dados_brutos(sensor_data[sensor_type], horas, agora)]
    /\ UNCHANGED << varsStream, ent, mascarada, varsAnalisador, varsSessao >>

ObterDadosInterpolados(sensor_type, interval_seconds) ==
    /\ sai' = [op |-> "obter_dados_interpolados", sensor_type |-> sensor_type, horas |-> 0,
               interval_seconds |-> interval_seconds,
               retorno |-> obter_dados_interpolados(sensor_data[sensor_type], sensor_type,
                                                    interval_seconds)]
    /\ UNCHANGED << varsStream, ent, mascarada, varsAnalisador, varsSessao >>

ObterDadosCombinados(sensor_type, horas, interval_seconds) ==
    /\ sai' = [op |-> "obter_dados_combinados", sensor_type |-> sensor_type, horas |-> horas,
               interval_seconds |-> interval_seconds,
               retorno |-> obter_dados_combinados(sensor_data[sensor_type], sensor_type,
                                                  horas, interval_seconds, agora)]
    /\ UNCHANGED << varsStream, ent, mascarada, varsAnalisador, varsSessao >>

NextLeitura ==
    \/ \E readings \in Mensagens : ProcessarDadosSensores(readings)
    \/ \E t \in SensoresIngeridos : \E h \in HorasPedidas : ObterDadosBrutos(t, h)
    \/ \E t \in SensoresIngeridos : \E s \in IntervalosPedidos : ObterDadosInterpolados(t, s)
    \/ \E t \in SensoresIngeridos : \E h \in HorasPedidas : \E s \in IntervalosPedidos :
          ObterDadosCombinados(t, h, s)

-----------------------------------------------------------------------------
(* MetricCalculator and calcular_metricas, called directly *)

\* longest series handed to a metric
MaxSerie == 3

RECURSIVE Soma(_)
Soma(xs) == IF xs = << >> THEN R(0, 1) ELSE RAdd(xs[1], Soma(Tail(xs)))

Quadrado(x) == Com(x, LAMBDA v : RMul(v, v))

\* least k with k * k >= m, from k on
RECURSIVE RaizInteira(_, _)
RaizInteira(m, k) == IF k * k >= m THEN k ELSE RaizInteira(m, k + 1)

\* math.sqrt / np.sqrt of q >= 0: the rational root when q has one, otherwise
\* the root is kept as the number it is the root of
sqrt(q) ==
    LET a == RaizInteira(q.n, 0)
        b == RaizInteira(q.d, 1)
    IN  IF a * a = q.n /\ b * b = q.d THEN R(a, b) ELSE [raiz_de |-> q]

\* val = float(str(y).replace(',', '.')) if y is not None else float('nan')
val_de(y) ==
    IF EhNenhum(y)
    THEN [ok |-> TRUE, v |-> NaN]
    ELSE py_float(StrReplace(py_str(y), ",", "."))

\* the loop that fills y_true_clean and y_pred_clean: a position is kept
\* when neither conversion raises and neither value is NaN
pares_limpos(y_true, y_pred) ==
    LET vals == [i \in 1..Min(Len(y_true), Len(y_pred)) |->
                    [val_true |-> val_de(y_true[i]), val_pred |-> val_de(y_pred[i])]]
        ficam == SelectSeq(vals, LAMBDA r : /\ r.val_true.ok /\ r.val_pred.ok
                                            /\ ~IsNaN(r.val_true.v)
                                            /\ ~IsNaN(r.val_pred.v))
    IN  [i \in 1..Len(ficam) |-> [y_true |-> ficam[i].val_true.v,
                                  y_pred |-> ficam[i].val_pred.v]]

\* sum((y_true_clean[i] - y_pred_clean[i]) ** 2 ...)
soma_residuos(c) == Soma([i \in 1..Len(c) |-> Quadrado(RSub(c[i].y_true, c[i].y_pred))])

\* the mean squared residual
mse_dos_pares(c) == RDiv(soma_residuos(c), R(Len(c), 1))

\* the rule for ss_tot == 0, and 1 - ss_res / ss_tot
r2_de(ss_res, ss_tot) ==
    IF ss_tot = R(0, 1)
    THEN (IF ss_res = R(0, 1) THEN R(1, 1) ELSE R(0, 1))
    ELSE RSub(R(1, 1), RDiv(ss_res, ss_tot))

\* r2 of the clean pairs, against the mean of the clean y_true
r2_dos_pares(c) ==
    Com(RDiv(Soma([i \in 1..Len(c) |-> c[i].y_true]), R(Len(c), 1)),
        LAMBDA y_mean :
            Com(<< soma_residuos(c),
                   Soma([i \in 1..Len(c) |-> Quadrado(RSub(c[i].y_true, y_mean))]) >>,
                LAMBDA ss : r2_de(ss[1], ss[2])))

\* r2 that needs one clean pair only
r2_score_um_par(y_true, y_pred) ==
    Com(pares_limpos(y_true, y_pred),
        LAMBDA c : IF Len(c) < 1 THEN NaN ELSE r2_dos_pares(c))

\* MetricCalculator.r2_score
r2_score(y_true, y_pred) ==
    Com(pares_limpos(y_true, y_pred),
        LAMBDA c : IF Len(c) < 2 THEN NaN ELSE r2_dos_pares(c))

\* MetricCalculator.rmse
rmse(y_true, y_pred) ==
    Com(pares_limpos(y_true, y_pred),
        LAMBDA c : IF Len(c) < 1 THEN NaN ELSE Com(mse_dos_pares(c), LAMBDA mse : sqrt(mse)))

\* the loop of calcular_metricas that fills orig_clean and interp_clean
pares_convertidos(original, interpolado) ==
    LET vals == [i \in 1..Min(Len(original), Len(interpolado)) |->
                    [y_true |-> converter_para_float(original[i]),
                     y_pred |-> converter_para_float(interpolado[i])]]
    IN  SelectSeq(vals, LAMBDA r : ~IsNaN(r.y_true) /\ ~IsNaN(r.y_pred))

\* calcular_metricas: (r2, rmse); SKLEARN_AVAILABLE is what the import of
\* sklearn.metrics found.  sklearn's r2_score is 1 - ss_res/ss_tot with the
\* same constant-original rule, mean_squared_error the mean squared residual.
calcular_metricas(original, interpolado, SKLEARN_AVAILABLE) ==
    IF SKLEARN_AVAILABLE
    THEN Com(pares_convertidos(original, interpolado),
             LAMBDA c : IF Len(c) < 2
                        THEN << NaN, NaN >>
                        ELSE << r2_dos_pares(c),
                                Com(mse_dos_pares(c), LAMBDA mse : sqrt(mse)) >>)
    ELSE << r2_score(original, interpolado), rmse(original, interpolado) >>

\* what the original and the reconstructed series are made of
TokensOriginal == { R(7, 1), Texto(<< "8", ",", "5" >>), Texto(<< "a", "b", "c" >>) }
TokensInterpolado == { R(7, 1), R(10, 1), NaN }

\* series of equal length, and of lengths that differ by one
SeriesOriginais(n) == [1..n -> TokensOriginal]

SeriesInterpoladas(n) ==
    UNION { [1..m -> TokensInterpolado] : m \in { n - 1, n, n + 1 } \cap (1..MaxSerie) }

InitMetricas ==
    /\ \E n \in 1..MaxSerie :
         \E o \in SeriesOriginais(n) : \E p \in SeriesInterpoladas(n) :
             ent = [alvo |-> "metricas", original |-> o, interpolado |-> p]
    /\ mascarada = SemMascara
    /\ sai = [op |-> "", sklearn |-> FALSE, levantou |-> FALSE, retorno |-> NaN]

ChamarR2Score ==
    /\ ent.alvo = "metricas"
    /\ sai' = [op |-> "r2_score", sklearn |-> FALSE, levantou |-> FALSE,
               retorno |-> r2_score(ent.original, ent.interpolado)]
    /\ UNCHANGED << ent, mascarada, varsAnalisador, varsStream, varsSessao >>

ChamarRmse ==
    /\ ent.alvo = "metricas"
    /\ sai' = [op |-> "rmse", sklearn |-> FALSE, levantou |-> FALSE,
               retorno |-> rmse(ent.original, ent.interpolado)]
    /\ UNCHANGED << ent, mascarada, varsAnalisador, varsStream, varsSessao >>

ChamarCalcularMetricas(sklearn) ==
    /\ ent.alvo = "metricas"
    /\ sai' = [op |-> "calcular_metricas", sklearn |-> sklearn, levantou |-> FALSE,
               retorno |-> calcular_metricas(ent.original, ent.interpolado, sklearn)]
    /\ UNCHANGED << ent, mascarada, varsAnalisador, varsStream, varsSessao >>

NextMetricas ==
    \/ ChamarR2Score
    \/ ChamarRmse
    \/ \E b \in BOOLEAN : ChamarCalcularMetricas(b)

-----------------------------------------------------------------------------
(* _calcular_eficiencia and _encontrar_melhores_intervalos_eficiencia, *)
(* called directly                                                      *)

\* rows of df_resultados handed to the ranking
MaxTestados == 3

\* math.log(x), x > 0: 0 for x = 1, otherwise kept as the logarithm of x
log(x) == IF x = R(1, 1) THEN R(0, 1) ELSE [log_de |-> x]

\* r2 * L for a logarithm L, r2 not NaN: 0 when a factor is 0, otherwise
\* kept as the product coef * log(log_de)
vezes_log(r2, L) ==
    IF "log_de" \notin DOMAIN L THEN RMul(r2, L)
    ELSE IF r2 = R(0, 1) THEN R(0, 1)
    ELSE [coef |-> r2, log_de |-> L.log_de]

\* percentual_transmitido/100 + 0.01, without the division into 1
razao_sem_inverso(percentual_transmitido) ==
    RAdd(RDiv(percentual_transmitido, R(100, 1)), R(1, 100))

\* 1/(percentual_transmitido/100 + 0.01)
razao_economia(percentual_transmitido) ==
    RInv(RAdd(RDiv(percentual_transmitido, R(100, 1)), R(1, 100)))

\* the score without the test of r2
calcular_eficiencia_sem_teste(r2, percentual_transmitido) ==
    IF IsNaN(r2) THEN NaN
    ELSE vezes_log(r2, log(razao_economia(percentual_transmitido)))

\* _calcular_eficiencia
calcular_eficiencia(r2, percentual_transmitido) ==
    IF IsNaN(r2) \/ RLess(r2, R(0, 1))
    THEN R(0, 1)
    ELSE vezes_log(r2, log(razao_economia(percentual_transmitido)))

\* Order of the scores.  log is increasing, and for t > 0
\*   2t/(2 + t) < log(1 + t) < t(2 + t)/(2(1 + t)),   log(1/x) = -log(x).
LogInf(x) ==
    IF RLeq(R(1, 1), x)
    THEN Com(RSub(x, R(1, 1)), LAMBDA t : RDiv(RMul(R(2, 1), t), RAdd(R(2, 1), t)))
    ELSE Com(RSub(RInv(x), R(1, 1)),
             LAMBDA t : RNeg(RDiv(RMul(t, RAdd(R(2, 1), t)),
                                  RMul(R(2, 1), RAdd(R(1, 1), t)))))

LogSup(x) ==
    IF RLeq(R(1, 1), x)
    THEN Com(RSub(x, R(1, 1)),
             LAMBDA t : RDiv(RMul(t, RAdd(R(2, 1), t)), RMul(R(2, 1), RAdd(R(1, 1), t))))
    ELSE Com(RSub(RInv(x), R(1, 1)),
             LAMBDA t : RNeg(RDiv(RMul(R(2, 1), t), RAdd(R(2, 1), t))))

EhProduto(e) == "coef" \in DOMAIN e

\* bounds of a score; of coef * log(x) they are coef times the bounds of log(x)
\* (the other way round for a negative coef)
ScoreInf(e) ==
    IF ~EhProduto(e) THEN e
    ELSE IF RLess(R(0, 1), e.coef) THEN RMul(e.coef, LogInf(e.log_de))
    ELSE RMul(e.coef, LogSup(e.log_de))

ScoreSup(e) ==
    IF ~EhProduto(e) THEN e
    ELSE IF RLess(R(0, 1), e.coef) THEN RMul(e.coef, LogSup(e.log_de))
    ELSE RMul(e.coef, LogInf(e.log_de))

\* a < b for two scores.  Decided exactly when they share a factor, by the
\* bounds otherwise; two scores whose bounds overlap have no order here.
ScoreLess(a, b) ==
    IF a = b THEN FALSE
    ELSE IF EhProduto(a) /\ EhProduto(b) /\ a.log_de = b.log_de
    THEN IF RLess(R(1, 1), a.log_de) THEN RLess(a.coef, b.coef) ELSE RLess(b.coef, a.coef)
    ELSE IF EhProduto(a) /\ EhProduto(b) /\ a.coef = b.coef
    THEN IF RLess(R(0, 1), a.coef) THEN RLess(a.log_de, b.log_de)
         ELSE RLess(b.log_de, a.log_de)
    ELSE IF RLess(ScoreSup(a), ScoreInf(b)) THEN TRUE
    ELSE IF RLess(ScoreSup(b), ScoreInf(a)) THEN FALSE
    ELSE CHOOSE ordem \in {} : TRUE

Parametros == << "temperatura", "ph", "ec", "od" >>

\* df_filtrado = df_resultados[df_resultados['intervalo'] > 1]
filtrar_intervalos(df_resultados) == SelectSeq(df_resultados, LAMBDA row : row.intervalo > 1)

\* df_filtrado['eficiencia'] = df_filtrado.apply(...)
com_eficiencia(df_filtrado, parametro) ==
    [i \in 1..Len(df_filtrado) |->
        [intervalo |-> df_filtrado[i].intervalo,
         percentual_transmitido |-> df_filtrado[i].percentual_transmitido,
         r2 |-> df_filtrado[i].r2[parametro],
         rmse |-> df_filtrado[i].rmse[parametro],
         eficiencia |-> calcular_eficiencia(df_filtrado[i].r2[parametro],
                                            df_filtrado[i].percentual_transmitido)]]

\* the first row
idx_primeira(rows) == 1

\* df_filtrado['eficiencia'].idxmax(): the first row no row beats
idxmax_eficiencia(rows) ==
    CHOOSE i \in 1..Len(rows) :
        /\ \A j \in 1..Len(rows) : ~ScoreLess(rows[i].eficiencia, rows[j].eficiencia)
        /\ \A j \in 1..(i - 1) : ScoreLess(rows[j].eficiencia, rows[i].eficiencia)

\* every row
sem_piso_de_qualidade(rows) == rows

\* df_filtrado[df_filtrado[r2_col] >= 0.9]
alta_qualidade(rows) == SelectSeq(rows, LAMBDA row : RLeq(R(9, 10), row.r2))

\* df_alta_qualidade['percentual_transmitido'].idxmin(): the first row that
\* transmits least
idxmin_transmitido(rows) ==
    CHOOSE i \in 1..Len(rows) :
        /\ \A j \in 1..Len(rows) :
              ~RLess(rows[j].percentual_transmitido, rows[i].percentual_transmitido)
        /\ \A j \in 1..(i - 1) :
              RLess(rows[i].percentual_transmitido, rows[j].percentual_transmitido)

Ausente == [none |-> TRUE]

\* melhores[parametro]
melhores_do_parametro(df_filtrado, parametro) ==
    Com(com_eficiencia(df_filtrado, parametro),
        LAMBDA rows :
            LET melhor == rows[idxmax_eficiencia(rows)]
                df_alta_qualidade == alta_qualidade(rows)
            IN  [melhor_eficiencia |->
                    [intervalo |-> melhor.intervalo, r2 |-> melhor.r2,
                     rmse |-> melhor.rmse,
                     transmitido |-> melhor.percentual_transmitido,
                     eficiencia |-> melhor.eficiencia],
                 mais_economico_alta_qualidade |->
                    IF df_alta_qualidade # << >>
                    THEN LET economico ==
                                 df_alta_qualidade[idxmin_transmitido(df_alta_qualidade)]
                         IN  [intervalo |-> economico.intervalo, r2 |-> economico.r2,
                              rmse |-> economico.rmse,
                              transmitido |-> economico.percentual_transmitido]
                    ELSE Ausente])

\* _encontrar_melhores_intervalos_eficiencia: the parameters with an entry
\* and their entries
encontrar_melhores_intervalos_eficiencia(df_resultados) ==
    Com(filtrar_intervalos(df_resultados),
        LAMBDA df_filtrado :
            [parametro \in (IF df_filtrado = << >> THEN {}
                            ELSE { Parametros[i] : i \in 1..Len(Parametros) }) |->
                melhores_do_parametro(df_filtrado, parametro)])

\* r2 and transmitted percentages handed to _calcular_eficiencia
R2Diretos == { NaN, R(-1, 2), R(-1, 10), R(0, 1), R(1, 20), R(19, 20), R(1, 1) }
PercentuaisDiretos == { R(0, 1), R(10, 1), R(50, 1), R(100, 1) }

\* r2 and transmitted percentages of the rows of a results table
R2Tabela == { R(-1, 2), R(9, 10), R(1, 1) }
PercentuaisTabela == { R(100, 1), R(50, 1), R(100, 3) }

\* a row of df_resultados: the r2 drawn is that of 'temperatura' and of
\* 'ph'; 'ec' and 'od' are columns the dataset does not have (NaN)
LinhaResultado(intervalo, percentual, r2) ==
    [intervalo |-> intervalo, percentual_transmitido |-> percentual,
     r2 |-> [q \in { Parametros[i] : i \in 1..Len(Parametros) } |->
                IF q \in { "temperatura", "ph" } THEN r2 ELSE NaN],
     rmse |-> [q \in { Parametros[i] : i \in 1..Len(Parametros) } |-> NaN]]

\* tables of n rows for the intervals primeiro, primeiro + 1, ...
TabelasResultados(n, primeiro) ==
    { [i \in 1..n |-> LinhaResultado(primeiro + i - 1, m[i][1], m[i][2])] :
        m \in [1..n -> PercentuaisTabela \X R2Tabela] }

InitEficiencia ==
    /\ \/ \E r2 \in R2Diretos : \E f1 \in PercentuaisDiretos : \E f2 \in PercentuaisDiretos :
            ent = [alvo |-> "eficiencia", r2 |-> r2, percentuais |-> << f1, f2 >>]
       \/ \E n \in 0..MaxTestados : \E primeiro \in { 1, 2 } :
            \E t \in TabelasResultados(n, primeiro) :
                ent = [alvo |-> "melhores", df_resultados |-> t]
    /\ mascarada = SemMascara
    /\ sai = [op |-> "", retorno |-> << >>]

\* _calcular_eficiencia for each of the two percentages
ChamarCalcularEficiencia ==
    /\ ent.alvo = "eficiencia"
    /\ sai' = [op |-> "calcular_eficiencia",
               retorno |-> [i \in 1..2 |-> calcular_eficiencia(ent.r2, ent.percentuais[i])]]
    /\ UNCHANGED << ent, mascarada, varsAnalisador, varsStream, varsSessao >>

ChamarEncontrarMelhores ==
    /\ ent.alvo = "melhores"
    /\ sai' = [op |-> "encontrar_melhores",
               retorno |-> encontrar_melhores_intervalos_eficiencia(ent.df_resultados)]
    /\ UNCHANGED << ent, mascarada, varsAnalisador, varsStream, varsSessao >>

NextEficiencia ==
    \/ ChamarCalcularEficiencia
    \/ ChamarEncontrarMelhores

-----------------------------------------------------------------------------
(* main: the GerenciadorDados of the session, the one the MQTT client holds, *)
(* the button that clears the data                                            *)

\* presses of 'Limpar Todos os Dados' in one run
MaxLimpezas == 2

\* readings received in one run
MaxRecebidas == 2

\* GerenciadorDados.__init__
GerenciadorNovo ==
    [sensor_data |-> [t \in TiposSensor |-> << >>], messages_received |-> 0,
     last_message_time |-> "None"]

\* the buffer of "ph" after n valid readings sent one second apart, the last
\* of them a second ago
PreenchidoSessao(n) ==
    [i \in 1..n |-> Linha(Num(AgoraInicial - n + i - 1, 0), R(7, 1), "logarithmic")]

\* the readings a message carries: two well-formed ones, one whose value
\* float() refuses, one of a sensor without a buffer, one whose timestamp is
\* a string
LeiturasSessao ==
    { Leitura("ph", [ok |-> TRUE, v |-> R(7, 1)], Enviado(0, "ms"), "logarithmic"),
      Leitura("ec", [ok |-> TRUE, v |-> R(40, 1)], Enviado(0, "s"), "polynomial"),
      Leitura("ph", [ok |-> FALSE, v |-> NaN], Enviado(0, "ms"), "logarithmic"),
      Leitura("turbidez", [ok |-> TRUE, v |-> R(7, 1)], Enviado(0, "ms"), "linear"),
      Leitura("ph", [ok |-> TRUE, v |-> R(7, 1)], Texto(<< "1", "7" >>), "logarithmic") }

MensagensSessao == UNION { [1..n -> LeiturasSessao] : n \in 1..MaxRecebidas }

SemMensagem == [alvo |-> "", readings |-> << >>]

\* the first run of main (lines 515-519): one GerenciadorDados, held by the
\* session and handed to ClienteMQTT; or the state MaxPontos - 1 "ph"
\* readings later
InitSessao ==
    /\ \E n \in { 0, MaxPontos - 1 } :
          objetos = << [GerenciadorNovo EXCEPT
                           !.sensor_data["ph"] = PreenchidoSessao(n),
                           !.messages_received = n,
                           !.last_message_time = IF n = 0 THEN "None" ELSE "now"] >>
    /\ sessao_gd = 1
    /\ cliente_gd = 1
    /\ ent = SemMensagem
    /\ mascarada = SemMascara
    /\ sai = SemConsulta

ParadoSessao ==
    /\ objetos = << >>
    /\ sessao_gd = 0
    /\ cliente_gd = 0

\* _on_message: _processar_dados_sensores on the object the client holds;
\* an exception that leaves the loop is logged by except Exception.
\* historico is the ghost of the rows stored since the last clearing.
OnMessage(readings) ==
    /\ n_chamadas + Len(readings) <= MaxRecebidas
    /\ LET antes == objetos[cliente_gd]
           fim == processar_dados_sensores(
                      [sensor_data |-> antes.sensor_data,
                       messages_received |-> antes.messages_received,
                       last_message_time |-> antes.last_message_time,
                       recebidas |-> [t \in TiposSensor |-> << >>]],
                      readings, 1, agora)
       IN  /\ objetos' = [objetos EXCEPT ![cliente_gd] =
                             [sensor_data |-> fim.gd.sensor_data,
                              messages_received |-> fim.gd.messages_received,
                              last_message_time |-> fim.gd.last_message_time]]
           /\ historico' =
                 [t \in TiposSensor |->
                     historico[t] \o
                     [i \in 1..Len(fim.gd.recebidas[t]) |->
                         Linha(timestamp_ajustado(fim.gd.recebidas[t][i].timestamp, agora),
                               fim.gd.recebidas[t][i].value.v,
                               fim.gd.recebidas[t][i].interpolation)]]
    /\ n_chamadas' = n_chamadas + Len(readings)
    /\ ent' = [alvo |-> "on_message", readings |-> readings]
    /\ sai' = SemConsulta
    /\ UNCHANGED << sessao_gd, cliente_gd, mascarada, sensor_data, messages_received,
                    last_message_time, data_lock, pc_ing, ing, pc_disp, disp, snap,
                    agora, varsAnalisador >>

\* the button (lines 570-573): st.session_state.gerenciador_dados = GerenciadorDados()
LimparDados ==
    /\ Len(objetos) <= MaxLimpezas
    /\ objetos' = Append(objetos, GerenciadorNovo)
    /\ sessao_gd' = Len(objetos) + 1
    /\ historico' = [t \in TiposSensor |-> << >>]
    /\ ent' = [alvo |-> "limpar", readings |-> << >>]
    /\ sai' = SemConsulta
    /\ UNCHANGED << cliente_gd, mascarada, sensor_data, messages_received,
                    last_message_time, data_lock, pc_ing, ing, pc_disp, disp, snap,
                    n_chamadas, agora, varsAnalisador >>

\* a tab of the dashboard (lines 657-659): obter_dados_interpolados on the
\* object of the session
ObterDadosInterpoladosDaSessao(sensor_type, interval_seconds) ==
    /\ sai' = [op |-> "obter_dados_interpolados", sensor_type |-> sensor_type, horas |-> 0,
               interval_seconds |-> interval_seconds,
               retorno |-> obter_dados_interpolados(
                               objetos[sessao_gd].sensor_data[sensor_type],
                               sensor_type, interval_seconds)]
    /\ UNCHANGED << ent, mascarada, varsStream, varsSessao, varsAnalisador >>

NextSessao ==
    \/ \E readings \in MensagensSessao : OnMessage(readings)
    \/ LimparDados
    \/ \E t \in SensoresIngeridos : \E s \in IntervalosPedidos :
          ObterDadosInterpoladosDaSessao(t, s)

\* the dashboard reruns main on its timer and the MQTT thread delivers what
\* the broker hands it: no step that stays possible is put off for ever
JusticaSessao == WF_vars(NextSessao)

-----------------------------------------------------------------------------
(* Specifications *)

\* the batch analyser
Init == InitAnalisador /\ ParadoInterp /\ ParadoStream /\ ParadoSessao

Next == ExecutarIntervalo

Spec == Init /\ [][Next]_vars

\* direct calls of the interpolation routines
InitI == ParadoAnalisador /\ InitInterp /\ ParadoStream /\ ParadoSessao

SpecInterp == InitI /\ [][NextInterp]_vars

\* the streaming buffer with its ingestion and display threads
InitS == ParadoAnalisador /\ ParadoInterp /\ InitStream /\ ParadoSessao

SpecStream == InitS /\ [][NextStream]_vars

\* _processar_dados_sensores and the reads, one call after the other
InitL == ParadoAnalisador /\ InitLeitura /\ ParadoSessao

SpecLeitura == InitL /\ [][NextLeitura]_vars

\* direct calls of the metrics
InitM == ParadoAnalisador /\ InitMetricas /\ ParadoStream /\ ParadoSessao

SpecMetricas == InitM /\ [][NextMetricas]_vars

\* direct calls of the efficiency score and of the ranking
InitE == ParadoAnalisador /\ InitEficiencia /\ ParadoStream /\ ParadoSessao

SpecEficiencia == InitE /\ [][NextEficiencia]_vars

\* a session of the dashboard: messages, clearings, reads
InitD == ParadoAnalisador /\ ParadoStream /\ InitSessao

SpecSessao == InitD /\ [][NextSessao]_vars

\* the same session with its steps taken fairly
SpecSessaoJusta == SpecSessao /\ JusticaSessao

-----------------------------------------------------------------------------
(* Properties of the batch analyser, under Spec *)

\* interval of the last iteration run
UltimoIntervalo == prox - 1

C1_Estado ==
    prox > 1 =>
        \A c \in colunas_numericas \cap DOMAIN df :
            /\ Len(df_simulado[c]) = Len(df[c])
            /\ \A i \in 1..Len(df[c]) :
                 df_simulado[c][i] =
                    IF (i - 1) % UltimoIntervalo = 0 THEN df[c][i] ELSE NaN

\* C1: simular_transmissao_intervalo(k) returns a table whose columns
\* temperatura/ph/ec/od hold the original value at every 0-based position p
\* with p mod k = 0 and NaN elsewhere, and self.df is never changed.
C1_MascaraPorPosicao == [](C1_Estado) /\ [][df' = df]_vars

\* a table of three rows masked with k = 2: a value blanked at position 1,
\* the value at position 2 kept
C1_Witness ==
    /\ prox = 3
    /\ NumLinhas(df) = 3
    /\ "ph" \in DOMAIN df
    /\ ~IsNaN(df["ph"][2]) /\ IsNaN(df_simulado["ph"][2])
    /\ ~IsNaN(df["ph"][3]) /\ df_simulado["ph"][3] = df["ph"][3]

\* number of positions p < n with p mod k = 0
Retidos(n, k) == Cardinality({ p \in 0..(n - 1) : p % k = 0 })

\* C2: the transmitted percentage stored in every result row equals
\* 100 * (number of positions p < n with p mod k = 0) / n.
C2_PercentualTransmitido ==
    \A j \in 1..Len(resultados_completos) :
        resultados_completos[j].percentual_transmitido =
            R(100 * Retidos(NumLinhas(df), resultados_completos[j].intervalo),
              NumLinhas(df))

-----------------------------------------------------------------------------
(* Properties of the interpolation routines, under SpecInterp *)

Finitos(vs) == \A i \in 1..Len(vs) : ~IsNaN(vs[i])

EstrategiaLote == sai.op \in { "linear", "conservative" }

\* C3: with k = 1 and a series of finite numbers the mask keeps every
\* position and both batch strategies return the series unchanged.
C3_IntervaloUmIdentidade ==
    (ent.alvo = "lote" /\ mascarada.feito /\ mascarada.k = 1 /\ Finitos(ent.valores))
        => /\ mascarada.valores = ent.valores
           /\ EstrategiaLote => sai.out = ent.valores

\* C4: both batch strategies return a series of the input's length that
\* holds, at every position where the input is a valid number, that number.
C4_ConhecidosPreservados ==
    EstrategiaLote =>
        /\ Len(sai.out) = Len(mascarada.valores)
        /\ \A i \in 1..Len(mascarada.valores) :
             ~IsNaN(mascarada.valores[i]) => sai.out[i] = mascarada.valores[i]

\* a and b are known positions of vs with nothing known between them and at
\* least one position between them
LacunaEntre(vs, a, b) ==
    /\ a + 1 < b
    /\ ~IsNaN(vs[a]) /\ ~IsNaN(vs[b])
    /\ \A j \in (a + 1)..(b - 1) : IsNaN(vs[j])

\* C5: conservative_interpolation with maximum max_gap gives every position
\* of a bounded gap of g unknown positions the value the Linear strategy
\* gives when g <= max_gap, and leaves it NaN when g > max_gap.
C5_LacunaConservadora ==
    sai.op = "conservative" =>
        LET vs  == mascarada.valores
            lin == linear_interpolation(ent.ids, vs)
        IN  \A a, b \in 1..Len(vs) :
                LacunaEntre(vs, a, b) =>
                    \A j \in (a + 1)..(b - 1) :
                        IF b - a - 1 <= sai.arg
                        THEN sai.out[j] = lin[j]
                        ELSE IsNaN(sai.out[j])

EntrePh(v) == RLeq(R(0, 1), v) /\ RLeq(v, R(PhMax, 1))

\* C6: method 'logarithmic' on two pH points a < b gives, strictly between
\* the two times, a value strictly between a and b that is not the value
\* on the chord (the concentration-space value differs from the linear one;
\* at the midpoint it is not (a + b) / 2).
C6_LogaritmicaNaoLinear ==
    ( /\ sai.op = "interpolar" /\ sai.metodo = "logarithmic"
      /\ Len(ent.ids) = 2
      /\ EntrePh(ent.valores[1]) /\ EntrePh(ent.valores[2])
      /\ RLess(ent.valores[1], ent.valores[2]) )
        => \A i \in 1..Len(sai.x_new) :
              (RLess(ent.ids[1], sai.x_new[i]) /\ RLess(sai.x_new[i], ent.ids[2]))
                 => /\ RLess(ent.valores[1], sai.out[i])
                    /\ RLess(sai.out[i], ent.valores[2])
                    /\ RAdd(sai.x_new[i], sai.x_new[i]) = RAdd(ent.ids[1], ent.ids[2])
                         => sai.out[i] # RDiv(RAdd(ent.valores[1], ent.valores[2]), R(2, 1))

\* the known positions of the input of the last call: the valid numbers of a
\* batch series, the positions p with p mod espacamento = 0 of a spaced one
Conhecidas ==
    IF EstrategiaLote
    THEN { i \in 1..Len(mascarada.valores) : ~IsNaN(mascarada.valores[i]) }
    ELSE { i \in 1..Len(ent.valores) : (i - 1) % sai.arg = 0 }

\* C7: no routine extrapolates: every position before the first known
\* position and after the last known position is NaN in the output.
C7_SemExtrapolacao ==
    sai.op \in { "linear", "conservative", "linear_npontos", "logaritmica_npontos" } =>
        \A i \in 1..Len(sai.out) :
            ((\A c \in Conhecidas : i < c) \/ (\A c \in Conhecidas : c < i))
                => IsNaN(sai.out[i])

\* C8: linear_interpolation gives each unknown position j of a bounded gap
\* v_before + (axis_j - axis_before) / (axis_after - axis_before)
\*              * (v_after - v_before).
C8_FormulaLinear ==
    sai.op = "linear" =>
        LET vs == mascarada.valores
        IN  \A a, b \in 1..Len(vs) :
                LacunaEntre(vs, a, b) =>
                    \A j \in (a + 1)..(b - 1) :
                        sai.out[j] =
                            RAdd(vs[a],
                                 RMul(RDiv(RSub(ent.ids[j], ent.ids[a]),
                                           RSub(ent.ids[b], ent.ids[a])),
                                      RSub(vs[b], vs[a])))

-----------------------------------------------------------------------------
(* Properties of the streaming buffer, under SpecStream *)

\* the last k elements of a sequence
Ultimos(h, k) == SubSeq(h, Len(h) - k + 1, Len(h))

\* C9: after any sequence of n successful appends to one sensor (no append
\* under way) its buffer holds exactly the min(n, 1000) most recently
\* appended rows, in arrival order.
C9_UltimosEmOrdem ==
    pc_ing = "ocioso" =>
        \A t \in TiposSensor :
            sensor_data[t] = Ultimos(historico[t], Min(Len(historico[t]), MaxPontos))

\* 1001 rows appended to one sensor: 1000 kept, the oldest gone
C9_Witness ==
    /\ pc_ing = "ocioso"
    /\ Len(historico["ph"]) = MaxPontos + 1
    /\ Len(sensor_data["ph"]) = MaxPontos
    /\ sensor_data["ph"][1] = historico["ph"][2]
    /\ sensor_data["ph"][MaxPontos] = historico["ph"][MaxPontos + 1]

\* C10: no read of the display thread works on a buffer caught in the middle
\* of an append: the rows a read works on are never more than 1000.
C10_NuncaMaisDeMil ==
    pc_disp = "calculando" => Len(snap) <= MaxPontos

\* C11: an append whose value float() refuses ends without raising and
\* leaves the reading in the sensor's buffer with value NaN.
C11_RecusadoGuardadoComoNaN ==
    [][(pc_ing = "trancado" /\ ~ing.value.ok /\ pc_ing' = "ocioso") =>
          sensor_data'[ing.sensor_type] =
              Append(sensor_data[ing.sensor_type],
                     Linha(ing.timestamp, NaN, ing.interpolation))]_vars

-----------------------------------------------------------------------------
(* Properties of the reads, under SpecLeitura *)

Reconstruidos == SelectSeq(sai.retorno, LAMBDA r : r.is_interpolated)

\* the start of the trailing window of the last read
InicioJanela == Num(agora - sai.horas * HoraSegundos, 0)

\* the instants of the rows buffered for the sensor of the last read
InstantesDoBuffer ==
    LET d == com_datetime(sensor_data[sai.sensor_type])
    IN  { d[i].datetime : i \in 1..Len(d) }

\* C12: with a trailing window of H hours asked for, every reconstructed
\* point delivered in the combined view is no older than now - H hours and
\* lies between the earliest and the latest buffered instant.
C12_ReconstruidosNaJanela ==
    sai.op = "obter_dados_combinados" =>
        \A i \in 1..Len(Reconstruidos) :
            /\ ~NumLess(Reconstruidos[i].datetime, InicioJanela)
            /\ \E a \in InstantesDoBuffer : ~NumLess(Reconstruidos[i].datetime, a)
            /\ \E b \in InstantesDoBuffer : ~NumLess(b, Reconstruidos[i].datetime)

\* the instant a reading was received with, in milliseconds
InstanteRecebido(reading) ==
    IF NumLess(reading.timestamp, Num(LimiteSegundosMil, 0))
    THEN NumVezesMil(reading.timestamp)
    ELSE reading.timestamp

\* the readings buffered for the sensor of the last read whose instant, as
\* received, is inside the trailing window
RecebidasNaJanela ==
    SelectSeq(historico[sai.sensor_type],
              LAMBDA reading : ~NumLess(InstanteRecebido(reading), InicioJanela))

\* C20: a raw read over the last H hours returns exactly the buffered
\* readings whose instant is inside those hours, each with the instant and
\* the value it was received with, none tagged interpolated.
C20_BrutosComoRecebidos ==
    sai.op = "obter_dados_brutos" =>
        /\ Len(sai.retorno) = Len(RecebidasNaJanela)
        /\ \A i \in 1..Len(sai.retorno) :
              /\ i <= Len(RecebidasNaJanela)
              /\ sai.retorno[i].datetime = InstanteRecebido(RecebidasNaJanela[i])
              /\ sai.retorno[i].value = RecebidasNaJanela[i].value.v
              /\ ~sai.retorno[i].is_interpolated

\* how many times a row occurs in a sequence of rows
Contagem(rows, r) == Cardinality({ i \in 1..Len(rows) : rows[i] = r })

Linhas(rows) == { rows[i] : i \in 1..Len(rows) }

\* what the raw read and the resampling return for the arguments of the
\* last read
BrutosDaConsulta == obter_dados_brutos(sensor_data[sai.sensor_type], sai.horas, agora)

ReconstruidosDaConsulta ==
    obter_dados_interpolados(sensor_data[sai.sensor_type], sai.sensor_type,
                             sai.interval_seconds)

\* C21: the combined view holds exactly the rows of the raw read, tagged
\* not interpolated, and the rows of the resampling, tagged interpolated,
\* each as many times as the two hold it, the latest instant first.
C21_CombinadosBrutosMaisReconstruidos ==
    sai.op = "obter_dados_combinados" =>
        /\ \A r \in Linhas(sai.retorno) \cup Linhas(BrutosDaConsulta)
                      \cup Linhas(ReconstruidosDaConsulta) :
              Contagem(sai.retorno, r)
                  = Contagem(BrutosDaConsulta, r) + Contagem(ReconstruidosDaConsulta, r)
        /\ \A r \in Linhas(BrutosDaConsulta) : ~r.is_interpolated
        /\ \A r \in Linhas(ReconstruidosDaConsulta) : r.is_interpolated
        /\ \A i \in 1..Len(sai.retorno) : \A j \in i..Len(sai.retorno) :
              ~NumLess(sai.retorno[i].datetime, sai.retorno[j].datetime)

\* a reconstructed row lies between two raw rows of the combined view
C21_Witness ==
    /\ sai.op = "obter_dados_combinados"
    /\ \E i, j, k \in 1..Len(sai.retorno) :
          /\ i < j /\ j < k
          /\ ~sai.retorno[i].is_interpolated
          /\ sai.retorno[j].is_interpolated
          /\ ~sai.retorno[k].is_interpolated
          /\ NumLess(sai.retorno[k].datetime, sai.retorno[j].datetime)
          /\ NumLess(sai.retorno[j].datetime, sai.retorno[i].datetime)

\* the earliest of the instants in S
Primeiro(S) == CHOOSE a \in S : \A b \in S : ~NumLess(b, a)

C25_AscendentesGuardadosEmOrdem ==
    \A t \in TiposSensor :
        (\A i \in 1..(Len(historico[t]) - 1) :
            NumLess(InstanteRecebido(historico[t][i]), InstanteRecebido(historico[t][i + 1])))
        => \A i \in 1..(Len(sensor_data[t]) - 1) :
               ~NumLess(sensor_data[t][i + 1].timestamp, sensor_data[t][i].timestamp)

\* the buffer of the last read, sorted, and its abscissae and ordinates as
\* the resampling hands them to interpolar
BufferOrdenado == sort_values(com_datetime(sensor_data[sai.sensor_type]), TRUE)

XConhecidos == [i \in 1..Len(BufferOrdenado) |-> eixo(BufferOrdenado[i].datetime)]

YConhecidos == [i \in 1..Len(BufferOrdenado) |-> BufferOrdenado[i].value]

PisoZero(y) == IF RLess(y, R(0, 1)) THEN R(0, 1) ELSE y

-----------------------------------------------------------------------------
(* Properties of the metrics, under SpecMetricas *)

\* the number a value of a series stands for, NaN when it stands for none
NumeroDe(x) ==
    IF x = Texto(<< "8", ",", "5" >>) THEN R(17, 2)
    ELSE IF x = Texto(<< "a", "b", "c" >>) THEN NaN
    ELSE x

\* the positions both series have, where both values are numbers
PosicoesValidas ==
    { i \in 1..Min(Len(ent.original), Len(ent.interpolado)) :
          ~IsNaN(NumeroDe(ent.original[i])) /\ ~IsNaN(NumeroDe(ent.interpolado[i])) }

\* the sum of g over the positions S
RECURSIVE SomaSobre(_, _)
SomaSobre(S, g) ==
    IF S = {} THEN R(0, 1)
    ELSE LET i == CHOOSE j \in S : TRUE
         IN  RAdd(g[i], SomaSobre(S \ {i}, g))

SSRes ==
    SomaSobre(PosicoesValidas,
              [i \in PosicoesValidas |->
                  RMul(RSub(NumeroDe(ent.original[i]), NumeroDe(ent.interpolado[i])),
                       RSub(NumeroDe(ent.original[i]), NumeroDe(ent.interpolado[i])))])

MediaOriginal ==
    RDiv(SomaSobre(PosicoesValidas, [i \in PosicoesValidas |-> NumeroDe(ent.original[i])]),
         R(Cardinality(PosicoesValidas), 1))

SSTot ==
    SomaSobre(PosicoesValidas,
              [i \in PosicoesValidas |->
                  RMul(RSub(NumeroDe(ent.original[i]), MediaOriginal),
                       RSub(NumeroDe(ent.original[i]), MediaOriginal))])

R2Esperado ==
    IF Cardinality(PosicoesValidas) < 2 THEN NaN
    ELSE IF SSTot = R(0, 1) THEN (IF SSRes = R(0, 1) THEN R(1, 1) ELSE R(0, 1))
    ELSE RSub(R(1, 1), RDiv(SSRes, SSTot))

\* C13: r2_score uses the positions where both values are numbers only; it
\* is NaN with fewer than 2 of them, 1 or 0 when the original is constant
\* (SS_tot = 0) and SS_res is or is not 0, and 1 - SS_res/SS_tot otherwise.
C13_R2DosParesValidos ==
    sai.op = "r2_score" => sai.retorno = R2Esperado

\* r2 of three positions of which one is not a pair of numbers, the
\* original not constant
C13_Witness ==
    /\ sai.op = "r2_score"
    /\ Len(ent.original) = 3 /\ Len(ent.interpolado) = 3
    /\ Cardinality(PosicoesValidas) = 2
    /\ SSTot # R(0, 1)
    /\ sai.retorno = RSub(R(1, 1), RDiv(SSRes, SSTot))

\* the root of the mean squared difference over the valid positions
RmseEsperado ==
    IF PosicoesValidas = {} THEN NaN
    ELSE sqrt(RDiv(SSRes, R(Cardinality(PosicoesValidas), 1)))

\* the RMSE the last call reported
RmseRelatado == IF sai.op = "calcular_metricas" THEN sai.retorno[2] ELSE sai.retorno

\* C14: the RMSE reported by rmse and by calcular_metricas, with either
\* metric backend, is NaN exactly when no position is valid and otherwise
\* the root of the mean squared difference over the valid positions.
C14_RmseDosParesValidos ==
    sai.op \in { "rmse", "calcular_metricas" } => RmseRelatado = RmseEsperado

\* C15: a metric called with an original and a reconstructed series of
\* different lengths reports an error to its caller instead of a value.
C15_ComprimentosDiferentes ==
    (sai.op \in { "r2_score", "rmse", "calcular_metricas" }
        /\ Len(ent.original) # Len(ent.interpolado)) => sai.levantou

\* the value the method of a tag gives at one instant of the grid, from the
\* sorted rows of the buffer of the resampled sensor
ValorDoMetodo(metodo, sensor_type, x) ==
    IF metodo = "logarithmic"
    THEN clip1(np_interp1(x, XConhecidos, YConhecidos), R(0, 1), R(PhMax, 1))
    ELSE IF metodo = "polynomial" /\ sensor_type \in { "ec", "do" }
    THEN interpolar(XConhecidos, YConhecidos, << x >>, "polynomial", sensor_type)[1]
    ELSE np_interp1(x, XConhecidos, YConhecidos)

\* the buffered entries of the resampled sensor with the smallest timestamp
MaisAntigas ==
    { k \in 1..Len(sensor_data[sai.sensor_type]) :
        \A j \in 1..Len(sensor_data[sai.sensor_type]) :
            ~NumLess(sensor_data[sai.sensor_type][j].timestamp,
                     sensor_data[sai.sensor_type][k].timestamp) }

\* C29: a resampling of 2 or more buffered points applies to every instant
\* of the grid the one method declared by a buffered entry of the smallest
\* timestamp, whatever the later entries declare; a tag interpolar does not
\* know, or 'polynomial' on a sensor other than ec and do, gives the plain
\* linear interpolation.
C29_MetodoDaPrimeiraLinha ==
    (sai.op = "obter_dados_interpolados" /\ Len(sensor_data[sai.sensor_type]) >= 2)
    => /\ Len(sai.retorno) >= 1
       /\ \E k \in MaisAntigas :
             \A i \in 1..Len(sai.retorno) :
                /\ sai.retorno[i].interpolation
                       = sensor_data[sai.sensor_type][k].interpolation
                /\ sai.retorno[i].value
                       = ValorDoMetodo(sensor_data[sai.sensor_type][k].interpolation,
                                       sai.sensor_type, eixo(sai.retorno[i].datetime))

\* ec rows declaring an unknown tag first and 'polynomial' later: the values
\* returned are the linear ones, outside the range a spline is clipped to
C29_Witness ==
    /\ sai.op = "obter_dados_interpolados"
    /\ sai.sensor_type = "ec"
    /\ Len(sensor_data["ec"]) >= 2
    /\ BufferOrdenado[1].interpolation = "cubic"
    /\ \E j \in 2..Len(BufferOrdenado) : BufferOrdenado[j].interpolation = "polynomial"
    /\ \E i \in 1..Len(sai.retorno) :
          /\ sai.retorno[i].interpolation = "cubic"
          /\ RLess(sai.retorno[i].value, R(0, 1))
          /\ sai.retorno[i].value
                 = np_interp1(eixo(sai.retorno[i].datetime), XConhecidos, YConhecidos)

-----------------------------------------------------------------------------
(* Properties of the efficiency score and of the ranking, under SpecEficiencia *)

C17_SemQualidadeEficienciaZero ==
    (sai.op = "calcular_eficiencia" /\ (IsNaN(ent.r2) \/ RLess(ent.r2, R(0, 1))))
    => \A i \in 1..2 : sai.retorno[i] = R(0, 1)

C17_Witness ==
    /\ sai.op = "calcular_eficiencia"
    /\ ent.r2 = R(-1, 2)
    /\ ent.percentuais = << R(0, 1), R(100, 1) >>
    /\ sai.retorno = << R(0, 1), R(0, 1) >>

\* the score of a tested row for a parameter, as the ranking must see it
ScoreDaLinha(row, parametro) ==
    IF IsNaN(row.r2[parametro]) \/ RLess(row.r2[parametro], R(0, 1))
    THEN R(0, 1)
    ELSE vezes_log(row.r2[parametro],
                   log(RInv(RAdd(RDiv(row.percentual_transmitido, R(100, 1)), R(1, 100)))))

Testadas == { ent.df_resultados[i] : i \in 1..Len(ent.df_resultados) }

TodosParametros == { Parametros[i] : i \in 1..Len(Parametros) }

\* C18: the best-efficiency interval of a parameter is a tested interval
\* above 1 whose score no other tested interval above 1 beats; interval 1
\* is never it, and there is no entry when no interval above 1 was tested.
C18_MelhorEficienciaEntreTestados ==
    sai.op = "encontrar_melhores" =>
        \A parametro \in TodosParametros :
            IF \A row \in Testadas : row.intervalo <= 1
            THEN parametro \notin DOMAIN sai.retorno
            ELSE /\ parametro \in DOMAIN sai.retorno
                 /\ LET melhor == sai.retorno[parametro].melhor_eficiencia
                    IN  /\ melhor.intervalo > 1
                        /\ \E row \in Testadas :
                              /\ row.intervalo = melhor.intervalo
                              /\ melhor.eficiencia = ScoreDaLinha(row, parametro)
                              /\ melhor.r2 = row.r2[parametro]
                              /\ melhor.transmitido = row.percentual_transmitido
                        /\ \A row \in Testadas :
                              row.intervalo > 1 =>
                                  ~ScoreLess(melhor.eficiencia, ScoreDaLinha(row, parametro))

\* the first tested interval above 1 is beaten by a later one, which is
\* chosen although interval 1 scores above it
C18_Witness ==
    /\ sai.op = "encontrar_melhores"
    /\ Len(ent.df_resultados) = 3
    /\ ent.df_resultados[1].intervalo = 1
    /\ "temperatura" \in DOMAIN sai.retorno
    /\ sai.retorno["temperatura"].melhor_eficiencia.intervalo = 3
    /\ ScoreLess(ScoreDaLinha(ent.df_resultados[2], "temperatura"),
                 sai.retorno["temperatura"].melhor_eficiencia.eficiencia)
    /\ ScoreLess(sai.retorno["temperatura"].melhor_eficiencia.eficiencia,
                 ScoreDaLinha(ent.df_resultados[1], "temperatura"))

Qualificadas(parametro) ==
    { row \in Testadas :
        /\ row.intervalo > 1
        /\ ~IsNaN(row.r2[parametro])
        /\ RLeq(R(9, 10), row.r2[parametro]) }

C28_EficienciaNaoNegativa ==
    (sai.op = "calcular_eficiencia"
        /\ ~IsNaN(ent.r2) /\ RLeq(R(0, 1), ent.r2) /\ RLeq(ent.r2, R(1, 1)))
    => \A i \in 1..2 :
          (RLeq(R(0, 1), ent.percentuais[i]) /\ RLeq(ent.percentuais[i], R(100, 1)))
          => ~ScoreLess(sai.retorno[i], R(0, 1))

-----------------------------------------------------------------------------
(* The edge policy of the interpolation routines, under SpecInterp *)

\* the positions of the series handed to the last batch call that hold a value
PosicoesConhecidas == { i \in 1..Len(mascarada.valores) : ~IsNaN(mascarada.valores[i]) }

\* C22: a routine given exactly one known point returns that point's value
\* at every output position, and given none returns NaN at every position.
C22_MenosDeDoisConhecidos ==
    /\ sai.op \in { "linear", "conservative" } =>
          /\ Cardinality(PosicoesConhecidas) = 1 =>
                \A j \in 1..Len(sai.out) : \A i \in PosicoesConhecidas :
                    sai.out[j] = mascarada.valores[i]
          /\ PosicoesConhecidas = {} =>
                \A j \in 1..Len(sai.out) : IsNaN(sai.out[j])
    /\ (sai.op = "interpolar" /\ Len(ent.ids) = 1) =>
          \A j \in 1..Len(sai.out) : sai.out[j] = ent.valores[1]

-----------------------------------------------------------------------------
(* Properties of a session, under SpecSessao *)

\* the buffer the dashboard reads for a sensor
BufferDaSessao(t) == objetos[sessao_gd].sensor_data[t]

\* C23: a sensor's buffer goes Empty -> Accumulating -> Resamplable: a
\* resampling of fewer than 2 points returns no row; an object's buffer of
\* 2 points or more has 2 or more after every step, eviction included; the
\* buffer the dashboard reads leaves that state only by the clearing, which
\* leaves it empty.
C23_EstadosDoBuffer ==
    [][/\ \A o \in DOMAIN objetos : \A t \in TiposSensor :
             Len(objetos[o].sensor_data[t]) >= 2 => Len(objetos'[o].sensor_data[t]) >= 2
       /\ \A t \in TiposSensor :
             (Len(BufferDaSessao(t)) >= 2 /\ Len(objetos'[sessao_gd'].sensor_data[t]) < 2)
                 => /\ ent'.alvo = "limpar"
                    /\ sessao_gd' # sessao_gd
                    /\ objetos'[sessao_gd'].sensor_data[t] = << >>
       /\ (sai' # sai /\ sai'.op = "obter_dados_interpolados"
              /\ Len(BufferDaSessao(sai'.sensor_type)) < 2)
             => sai'.retorno = << >>]_vars

\* the full buffer has taken one more reading, lost its oldest row, and
\* the dashboard has resampled it
C23_Witness ==
    /\ Len(objetos) = 1
    /\ objetos[1].messages_received = MaxPontos + 1
    /\ Len(objetos[1].sensor_data["ph"]) = MaxPontos
    /\ objetos[1].sensor_data["ph"][1] # PreenchidoSessao(MaxPontos - 1)[1]
    /\ sai.op = "obter_dados_interpolados"
    /\ sai.sensor_type = "ph"
    /\ sai.retorno # << >>

\* every row stored since the last clearing is in the buffer the dashboard reads
RecebidasVisiveis ==
    \A t \in TiposSensor : \A i \in 1..Len(historico[t]) :
        \E j \in 1..Len(BufferDaSessao(t)) : BufferDaSessao(t)[j] = historico[t][i]

\* C27: after a clearing, a reading the MQTT client receives and stores
\* eventually is in the buffer the dashboard reads.
C27_RecebidasDepoisDeLimparVisiveis == (~RecebidasVisiveis) ~> RecebidasVisiveis

\* a reading with a known sensor type, a value float() accepts and a
\* numeric timestamp
BemFormada(reading) ==
    /\ reading.sensor_type \in TiposSensor
    /\ reading.value.ok
    /\ EhNumero(reading.timestamp)

BemFormadas(readings) == { i \in 1..Len(readings) : BemFormada(readings[i]) }

\* C30: of a received message every well-formed reading is appended to the
\* buffer of its sensor and counted in messages_received, whatever the other
\* readings of the message are and wherever they stand in it.
C30_BemFormadasGuardadas ==
    [][(n_chamadas' # n_chamadas /\ ent'.alvo = "on_message")
          => /\ objetos'[cliente_gd].messages_received
                    = objetos[cliente_gd].messages_received
                          + Cardinality(BemFormadas(ent'.readings))
             /\ \A i \in BemFormadas(ent'.readings) :
                   \E j \in 1..Len(objetos'[cliente_gd].sensor_data[ent'.readings[i].sensor_type]) :
                       objetos'[cliente_gd].sensor_data[ent'.readings[i].sensor_type][j]
                           = Linha(timestamp_ajustado(ent'.readings[i].timestamp, agora),
                                   ent'.readings[i].value.v,
                                   ent'.readings[i].interpolation)]_vars

=============================================================================
